---------------------------- MODULE Spec2Model ----------------------------
(***************************************************************************)
(* A model of the XVR napari front-ends:                                   *)
(*   - the pose viewer (parameters_display_gui.py): one handler, run on    *)
(*     every press of "Load Parameters & Display Pose"        (Spec);      *)
(*   - the registration forms and the command vectors they build           *)
(*     (xvr_register_gui.py, registration-dicom.py, registration-fixed.py) *)
(*                                                            (SpecCmd);   *)
(*   - the subprocess the launchers start and the relay of its output      *)
(*                                                            (SpecRun).   *)
(*                                                                         *)
(* Numbers.  Every real the viewer computes with is written <<a, b>> and   *)
(* denotes (a + b*sqrt(2)) / 8.  Angles are multiples of 45 degrees, so    *)
(* the sines, cosines and every entry of a rotation matrix built from      *)
(* three of them are exactly of this form: the arithmetic is exact.        *)
(* A stored angle (radians) is an integer k denoting k*pi/4.               *)
(***************************************************************************)
EXTENDS Integers, Sequences, FiniteSets, TLC

VARIABLES
    \* ---- pose viewer (parameters_display_gui.py)
    initialized_ui,     \* hasattr(xvr_pose_viewer_widget, "_initialized_ui")
    rot_spinboxes,      \* _rot_spinboxes: "Z","X","Y" -> displayed value
    trans_spinboxes,    \* _trans_spinboxes: "X","Y","Z" -> displayed value
    parameters_file,    \* the file the last invocation was given
    shown,              \* the show_info notifications of the last invocation
    raised,             \* an exception left the last invocation
    final_pose_matrix,  \* the 4x4 final_pose_matrix the last invocation decomposed (or NoValue)
    euler_angles,       \* local euler_angles of the last invocation (or NoValue)
    translation_vec,    \* local translation_vec of the last invocation (or NoValue)
    reconstructed,      \* the rotations/translations branch built a pose
    dirty_on_entry,     \* some spinbox was not 0.0 when the last invocation began
    set_value_calls,    \* the setValue calls of the last invocation after its reset, in order
    file_opens,         \* the modes in which the last invocation opened the parameters file
    record_after,       \* the loaded dict as the last invocation left it (or NoValue)
    widgets_created,    \* how many QDoubleSpinBox objects have been created so far
    group_attached,     \* how many times the group box was added to the widget layout
    rot_widgets,        \* _rot_spinboxes: "Z","X","Y" -> the widget (by order of creation)
    trans_widgets,      \* _trans_spinboxes: "X","Y","Z" -> the widget
    written_to,         \* the widgets the last invocation called setValue on
    \* ---- registration forms (xvr_register_gui.py, registration-*.py)
    launcher,           \* the script that runs: "model", "dicom" or "fixed"
    form,               \* the magicgui widget values: parameter -> value
    cmd_pc,             \* "idle", or "returned" right after a press of the call button
    command,            \* the argument vector handed to subprocess.Popen (<<>>: none)
    cmd_shown,          \* the show_info notifications of that press
    cmd_result,         \* what run_xvr_register*_cli returned: "True", "False", "none"
    created_dirs,       \* the directories output_path.mkdir has created
    \* ---- the external process and the relay of its output
    child_script,       \* what the child will write: a sequence of [stream, line]
    child_exit,         \* the code the child exits with
    popen_fails,        \* Popen raises
    popen_exception,    \* what it raises then: "FileNotFoundError" or another exception
    child_pos,          \* how many of its writes the child has done
    child_state,        \* "none", "running", "exited"
    out_pipe,           \* lines in the stdout pipe, not yet read
    err_pipe,           \* lines in the stderr pipe, not yet read
    stderr_output,      \* what the launcher has read from stderr
    console,            \* everything written to the terminal, in order
    \* ---- the launcher panel (xvr_register_gui.py)
    base_dir,           \* the directory of the script: file name -> "file" or "dir"
    last_gui,           \* the gui_name of the last call of launch_selected_gui ("": none yet)
    spawned,            \* the argument vectors subprocess.Popen has started, in order
    running,            \* the started processes (by position in spawned) that have not exited
    panel_shown,        \* the show_info notifications of the last call
    panel_raised,       \* an exception left the last call
    \* ---- training and finetuning (simple_xvr_gui.py, finetune_gui.py)
    trainer,            \* the script that runs: "train" or "finetune"
    xvr_imported,       \* the import of xvr at the top of the script succeeded
    train_form,         \* the magicgui widget values: parameter -> value
    train_pc,           \* "idle", or "returned" right after a press of the call button
    train_config,       \* the config handed to train_model / run_xvr_finetune_cli
    train_call,         \* that call: "not called", "returned" or the exception it raised
    cli_args,           \* the args handed to CliRunner.invoke (<<>>: none)
    wandb_run,          \* the run of this press: "none", "running" (finish() not called),
                        \* "finished", "finish raised"
    train_shown,        \* the show_info notifications of that press
    train_raised,       \* the exception that left the widget ("none": it returned)
    train_dirs          \* the directories outpath.mkdir has created

viewerVars == <<initialized_ui, rot_spinboxes, trans_spinboxes, parameters_file,
                shown, raised, final_pose_matrix, euler_angles, translation_vec,
                reconstructed, dirty_on_entry, set_value_calls, file_opens, record_after,
                widgets_created, group_attached, rot_widgets, trans_widgets,
                written_to>>

cmdVars == <<launcher, form, cmd_pc, command, cmd_shown, cmd_result, created_dirs>>
runVars == <<child_script, child_exit, popen_fails, popen_exception, child_pos, child_state, out_pipe,
             err_pipe, stderr_output, console>>
panelVars == <<base_dir, last_gui, spawned, running, panel_shown, panel_raised>>
trainVars == <<trainer, xvr_imported, train_form, train_pc, train_config, train_call,
               cli_args, wandb_run, train_shown, train_raised, train_dirs>>

\* ------------------------------------------------------------------ bounds
\* Stored angles range over -MaxAngle .. MaxAngle (units of pi/4).
MaxAngle == 2
\* A form differs from its ready-to-run values in at most MaxChanged fields.
MaxChanged == 2
\* The child writes at most MaxWrites lines; a pipe holds at most PipeCap lines.
MaxWrites == 3
PipeCap == 1
\* The launcher panel starts at most MaxLaunches processes.
MaxLaunches == 3

\* ------------------------------------------------------- exact arithmetic
Zero == <<0, 0>>
One == <<8, 0>>
Mm(t) == <<8 * t, 0>>
Deg(d) == <<8 * d, 0>>

NAdd(x, y) == <<x[1] + y[1], x[2] + y[2]>>
NNeg(x) == <<-x[1], -x[2]>>
NSub(x, y) == NAdd(x, NNeg(y))
\* product of the numerators; the denominators multiply
NMul(x, y) == <<x[1] * y[1] + 2 * x[2] * y[2], x[1] * y[2] + x[2] * y[1]>>

\* the sign of a + b*sqrt(2)
Sgn(x) ==
    LET a == x[1]
        b == x[2]
        sq == a * a - 2 * b * b
    IN  IF a = 0 /\ b = 0 THEN 0
        ELSE IF a >= 0 /\ b >= 0 THEN 1
        ELSE IF a <= 0 /\ b <= 0 THEN -1
        ELSE IF a > 0 THEN (IF sq > 0 THEN 1 ELSE -1)
        ELSE (IF sq > 0 THEN -1 ELSE 1)

\* cos and sin of k*pi/4, over the denominator 2
Cos2(k) ==
    LET m == k % 8
    IN  CASE m = 0 -> <<2, 0>>
          [] m = 1 -> <<0, 1>>
          [] m = 2 -> <<0, 0>>
          [] m = 3 -> <<0, -1>>
          [] m = 4 -> <<-2, 0>>
          [] m = 5 -> <<0, -1>>
          [] m = 6 -> <<0, 0>>
          [] m = 7 -> <<0, 1>>
Sin2(k) == Cos2(k - 2)

MatMul(A, B) ==
    [i \in 1..3 |-> [j \in 1..3 |->
        NAdd(NAdd(NMul(A[i][1], B[1][j]), NMul(A[i][2], B[2][j])), NMul(A[i][3], B[3][j]))]]

Rz(k) == << <<Cos2(k), NNeg(Sin2(k)), Zero>>,
            <<Sin2(k), Cos2(k), Zero>>,
            <<Zero, Zero, <<2, 0>> >> >>
Rx(k) == << << <<2, 0>>, Zero, Zero>>,
            <<Zero, Cos2(k), NNeg(Sin2(k))>>,
            <<Zero, Sin2(k), Cos2(k)>> >>
Ry(k) == << <<Cos2(k), Zero, Sin2(k)>>,
            <<Zero, <<2, 0>>, Zero>>,
            <<NNeg(Sin2(k)), Zero, Cos2(k)>> >>


\* a variant with the X and Y angles exchanged, for comparison
FromEulerSwapped(rot) == MatMul(MatMul(Rz(rot[1]), Rx(rot[3])), Ry(rot[2]))
\* ------------------------------------------------- scipy Rotation (ZXY)
\* R_scipy.from_euler("ZXY", rot, degrees=False).as_matrix(): intrinsic
\* rotations about Z, then X, then Y; entries over the denominator 8.
FromEulerZXY(rot) == MatMul(MatMul(Rz(rot[1]), Rx(rot[2])), Ry(rot[3]))

Det(m) ==
    NAdd(NSub(NMul(m[1][1], NSub(NMul(m[2][2], m[3][3]), NMul(m[2][3], m[3][2]))),
              NMul(m[1][2], NSub(NMul(m[2][1], m[3][3]), NMul(m[2][3], m[3][1])))),
         NMul(m[1][3], NSub(NMul(m[2][1], m[3][2]), NMul(m[2][2], m[3][1]))))

\* R_scipy.from_matrix raises ValueError on a matrix whose determinant is not
\* positive.  (It replaces a non-orthogonal matrix of positive determinant by
\* the nearest rotation; no such matrix is among the modelled files.)
FromMatrixRaises(m) == Sgn(Det(m)) <= 0

\* atan2(y, x) in degrees, in [-180, 180], for a direction on the 45-degree grid
Atan2Deg(y, x) ==
    LET sy == Sgn(y)
        sx == Sgn(x)
        c == Sgn(NSub(NMul(y, y), NMul(x, x)))
    IN  CASE sy = 0 /\ sx >= 0 -> 0
          [] sy = 0 /\ sx < 0 -> 180
          [] sy # 0 /\ sx = 0 -> 90 * sy
          [] sy # 0 /\ sx > 0 /\ c = 0 -> 45 * sy
          [] sy # 0 /\ sx < 0 /\ c = 0 -> 135 * sy

\* asin(v) in degrees, v over the denominator 8, on the 45-degree grid
AsinDeg(v) ==
    CASE v = <<0, 0>> -> 0
      [] v = <<0, 4>> -> 45
      [] v = <<8, 0>> -> 90
      [] v = <<0, -4>> -> -45
      [] v = <<-8, 0>> -> -90

\* Rotation.as_euler("ZXY", degrees=True) of the rotation matrix m:
\* m = Rz(a) Rx(b) Ry(c) with b in [-90, 90]; at b = +-90 (gimbal lock) scipy
\* sets the third angle to zero and puts the whole turn into the first.
AsEulerZXY(m) ==
    LET b == AsinDeg(m[3][2])
    IN  IF b = 90 \/ b = -90
        THEN <<Deg(Atan2Deg(m[2][1], m[1][1])), Deg(b), Deg(0)>>
        ELSE <<Deg(Atan2Deg(NNeg(m[1][2]), m[2][2])), Deg(b),
               Deg(Atan2Deg(NNeg(m[3][1]), m[3][3]))>>

\* ------------------------------------------------------------- tensors
T(shape, data) == [tensor |-> TRUE, shape |-> shape, data |-> data]
\* a value that is not a torch.Tensor (a list, a string, ...)
NonTensor == [tensor |-> FALSE, shape |-> <<>>, data |-> <<>>]

\* Tensor.squeeze(): drop the dimensions of size 1
Squeeze(t) == [t EXCEPT !.shape = SelectSeq(t.shape, LAMBDA d : d # 1)]
\* np.atleast_1d
AtLeast1d(t) == IF t.shape = <<>> THEN [t EXCEPT !.shape = <<1>>] ELSE t

\* a variant that starts from a matrix of zeros, for comparison
BuildPoseOnZeros(rotation_mat, trans) ==
    T(<<4, 4>>,
      [n \in 1..16 |->
          LET i == ((n - 1) \div 4) + 1
              j == ((n - 1) % 4) + 1
          IN  IF i <= 3 /\ j <= 3 THEN rotation_mat[i][j]
              ELSE IF i <= 3 THEN trans[i]
              ELSE Zero])
\* final_pose = np.eye(4); final_pose[:3, :3] = rotation_mat; final_pose[:3, 3] = trans
BuildPose(rotation_mat, trans) ==
    T(<<4, 4>>,
      [n \in 1..16 |->
          LET i == ((n - 1) \div 4) + 1
              j == ((n - 1) % 4) + 1
          IN  IF i <= 3 /\ j <= 3 THEN rotation_mat[i][j]
              ELSE IF i <= 3 THEN trans[i]
              ELSE IF j = 4 THEN One ELSE Zero])

\* final_pose_matrix[:3, :3] and final_pose_matrix[:3, 3] of a 4x4 tensor
RotationBlock(t) == [i \in 1..3 |-> [j \in 1..3 |-> t.data[(i - 1) * 4 + j]]]
\* a variant that takes rows 1 to 3 of the column, for comparison
TranslationColumnFromRow1(t) == [i \in 1..3 |-> t.data[i * 4 + 4]]
TranslationColumn(t) == [i \in 1..3 |-> t.data[(i - 1) * 4 + 4]]

\* ------------------------------------------------------- notifications
\* A show_info text: its fixed part and the shapes formatted into it.
Msg(text, shapes) == [text |-> text, shapes |-> shapes]
AttemptMsg == Msg("Attempting to load parameters from: {parameters_file}", {})
FileNotFoundMsg == Msg("Error: Parameters file not found at {parameters_file}", {})
NotDictMsg == Msg("Error: Loaded .pt file is not a dictionary.", {})
UnexpectedShapesMsg == Msg("Warning: Unexpected tensor shapes for rotation/translation.", {})
InvalidShapeMsg(shape) == Msg("Error: Invalid final_pose shape: {final_pose_matrix.shape}", {shape})
LoadedMsg == Msg("6 DoF loaded and displayed in GUI.", {})
NoPoseMsg == Msg("Warning: No pose data found in parameters file.", {})
ProcessingErrorMsg == Msg("Error processing parameters file: {e}", {})

\* ------------------------------------------------------------ spinboxes
RotAxes == {"Z", "X", "Y"}
TransAxes == {"X", "Y", "Z"}
\* spinbox.setRange(-360.0, 360.0) and spinbox.setRange(-5000.0, 5000.0)
RotRange == 360
TransRange == 5000

\* QDoubleSpinBox.setValue: the value is bounded to the range of the box.
\* (setDecimals(3) rounds to a thousandth; every modelled value is a multiple
\* of 1/8, which that rounding leaves as it is.)
SetValue(v, range) ==
    IF Sgn(NSub(v, <<8 * range, 0>>)) > 0 THEN <<8 * range, 0>>
    ELSE IF Sgn(NAdd(v, <<8 * range, 0>>)) < 0 THEN <<-8 * range, 0>>
    ELSE v

\* a new QDoubleSpinBox shows 0.0
NewSpinboxes(axes) == [a \in axes |-> Zero]

\* a variant without the reset, for comparison
KeepDisplay(boxes) == boxes
\* lines 119-123: every spinbox is set to 0.0
ResetDisplay(boxes) == [a \in DOMAIN boxes |-> Zero]

\* ---------------------------------------------------- the handler's steps
NoValue == <<>>

\* What the code after the reset has come to: whether it raised, the
\* notifications it showed, the locals it set, and the setValue calls it made
\* (rot, trans: axis -> value written; empty when it wrote nothing).
Outcome(exc, notes, matrix, euler, tvec, built, rot, trans) ==
    [exc |-> exc, notes |-> notes, matrix |-> matrix, euler |-> euler,
     tvec |-> tvec, built |-> built, rot |-> rot, trans |-> trans]
NothingWritten == <<>>

\* lines 141-170: final_pose_tensor, from 'final_pose' or from
\* 'rotations'/'translations'.  found: final_pose_tensor is not None.
Selected(exc, found, pose, built, notes) ==
    [exc |-> exc, found |-> found, pose |-> pose, built |-> built, notes |-> notes]

Reconstruct(data) ==
    IF ~data["rotations"].tensor \/ ~data["translations"].tensor
    THEN \* .squeeze().cpu().numpy() of a value that is no tensor raises
         Selected(TRUE, FALSE, NonTensor, FALSE, <<>>)
    ELSE LET rot_tensor == AtLeast1d(Squeeze(data["rotations"]))
             trans_tensor == AtLeast1d(Squeeze(data["translations"]))
         IN  IF rot_tensor.shape = <<3>> /\ trans_tensor.shape = <<3>>
             THEN Selected(FALSE, TRUE,
                           BuildPose(FromEulerZXY(rot_tensor.data), trans_tensor.data),
                           TRUE, <<>>)
             ELSE Selected(FALSE, FALSE, NonTensor, FALSE, <<UnexpectedShapesMsg>>)

\* a variant that tries the rotations/translations pair first, for comparison
SelectPoseReconstructFirst(data) ==
    IF "rotations" \in DOMAIN data /\ "translations" \in DOMAIN data
    THEN Reconstruct(data)
    ELSE IF "final_pose" \in DOMAIN data /\ data["final_pose"].tensor
    THEN Selected(FALSE, TRUE, data["final_pose"], FALSE, <<>>)
    ELSE Selected(FALSE, FALSE, NonTensor, FALSE, <<>>)
\* lines 141-149: final_pose when it is a tensor, else the pair when both keys exist
SelectPose(data) ==
    IF "final_pose" \in DOMAIN data /\ data["final_pose"].tensor
    THEN Selected(FALSE, TRUE, data["final_pose"], FALSE, <<>>)
    ELSE IF "rotations" \in DOMAIN data /\ "translations" \in DOMAIN data
    THEN Reconstruct(data)
    ELSE Selected(FALSE, FALSE, NonTensor, FALSE, <<>>)

\* a variant without the notification, for comparison
SilentNoPose(sel) ==
    Outcome(FALSE, sel.notes, NoValue, NoValue, NoValue, sel.built, NothingWritten, NothingWritten)
\* lines 209-211: no pose was selected
NoPoseBranch(sel) ==
    Outcome(FALSE, sel.notes \o <<NoPoseMsg>>, NoValue, NoValue, NoValue, sel.built, NothingWritten, NothingWritten)

\* one setValue call: the dictionary, the key, the argument
Call(boxes, axis, value) == [boxes |-> boxes, axis |-> axis, value |-> value]
\* a variant that gives the second angle to Rot Y and the third to Rot X, for comparison
SetValueCallsByAxisName(euler, tvec) ==
    <<Call("rot", "Z", euler[1]), Call("rot", "Y", euler[2]), Call("rot", "X", euler[3]),
      Call("trans", "X", tvec[1]), Call("trans", "Y", tvec[2]), Call("trans", "Z", tvec[3])>>
\* lines 191-196, in order
SetValueCalls(euler, tvec) ==
    <<Call("rot", "Z", euler[1]), Call("rot", "X", euler[2]), Call("rot", "Y", euler[3]),
      Call("trans", "X", tvec[1]), Call("trans", "Y", tvec[2]), Call("trans", "Z", tvec[3])>>
\* the argument of the last call on one box
LastCall(calls, boxes, axis) ==
    LET on == {i \in 1..Len(calls) : calls[i].boxes = boxes /\ calls[i].axis = axis}
    IN  calls[CHOOSE i \in on : \A j \in on : j <= i].value

\* lines 190-196: what the six setValue calls leave in the boxes
WriteSpinboxes(euler, tvec) ==
    [rot |-> [a \in RotAxes |->
                SetValue(LastCall(SetValueCalls(euler, tvec), "rot", a), RotRange)],
     trans |-> [a \in TransAxes |->
                SetValue(LastCall(SetValueCalls(euler, tvec), "trans", a), TransRange)]]

\* lines 175-211: squeeze, check the shape, decompose, display
ExtractAndDisplay(sel) ==
    IF sel.exc THEN Outcome(TRUE, sel.notes, NoValue, NoValue, NoValue, sel.built, NothingWritten, NothingWritten)
    ELSE IF ~sel.found THEN NoPoseBranch(sel)
    ELSE LET squeezed == Squeeze(sel.pose)
         IN  IF squeezed.shape # <<4, 4>>
             THEN Outcome(FALSE, sel.notes \o <<InvalidShapeMsg(squeezed.shape)>>,
                          NoValue, NoValue, NoValue, sel.built, NothingWritten, NothingWritten)
             ELSE LET matrix == [i \in 1..4 |-> [j \in 1..4 |-> squeezed.data[(i - 1) * 4 + j]]]
                      rotation_matrix == RotationBlock(squeezed)
                      tvec == TranslationColumn(squeezed)
                  IN  IF FromMatrixRaises(rotation_matrix)
                      THEN Outcome(TRUE, sel.notes, matrix, NoValue, tvec, sel.built, NothingWritten, NothingWritten)
                      ELSE LET euler == AsEulerZXY(rotation_matrix)
                               w == WriteSpinboxes(euler, tvec)
                           IN  Outcome(FALSE, sel.notes \o <<LoadedMsg>>, matrix, euler, tvec,
                                       sel.built, w.rot, w.trans)

\* a variant without the handler, for comparison
Propagate(o) == o
\* lines 213-215: except Exception as e: show_info(...); nothing is re-raised
HandleException(o) ==
    IF o.exc THEN [o EXCEPT !.exc = FALSE, !.notes = o.notes \o <<ProcessingErrorMsg>>] ELSE o

\* ------------------------------------------------- the parameters file
\* What parameters_file.is_file() and torch.load make of the chosen path.
File(kind, data) == [kind |-> kind, data |-> data]
MissingFile == File("missing", <<>>)       \* is_file() is False
CorruptFile == File("corrupt", <<>>)       \* torch.load raises
NotDictFile == File("notdict", <<>>)       \* torch.load returns no dict
Dict(data) == File("dict", data)

Angles == (-MaxAngle) .. MaxAngle
RotVecs == [1..3 -> Angles]
SmallRotVecs == [1..3 -> {-1, 0, 1}]
TransVecs == {<<Mm(0), Mm(0), Mm(0)>>, <<Mm(10), Mm(-20), Mm(30)>>,
              <<Mm(6000), Mm(0), Mm(-7000)>>}
SomeRot == <<1, -1, 2>>
SomeTrans == <<Mm(10), Mm(-20), Mm(30)>>
ZeroMatrix == T(<<4, 4>>, [n \in 1..16 |-> Zero])

\* rotations = [0, 0, pi/2], translations = [10, 0, 0]
QuarterTurnFile ==
    Dict(("rotations" :> T(<<3>>, <<0, 0, 2>>))
         @@ ("translations" :> T(<<3>>, <<Mm(10), Mm(0), Mm(0)>>)))
\* records with a 'rotations'/'translations' pair of the expected shapes
PairFiles ==
    {QuarterTurnFile} \cup
    {Dict(("rotations" :> T(<<3>>, r)) @@ ("translations" :> T(<<3>>, SomeTrans))) :
        r \in RotVecs}
    \cup {Dict(("rotations" :> T(<<3>>, r)) @@ ("translations" :> T(<<3>>, t))) :
        r \in SmallRotVecs \cup {<<2, -1, 1>>}, t \in TransVecs}
    \cup {Dict(("rotations" :> T(<<1, 3>>, r)) @@ ("translations" :> T(<<3, 1>>, SomeTrans))) :
        r \in SmallRotVecs}
\* records whose pair does not reduce to length 3 each
BadPairFiles ==
    {Dict(("rotations" :> T(<<4>>, <<1, 0, -1, 2>>)) @@ ("translations" :> T(<<3>>, SomeTrans))),
     Dict(("rotations" :> T(<<3>>, SomeRot)) @@ ("translations" :> T(<<2>>, <<Mm(10), Mm(30)>>))),
     Dict(("rotations" :> T(<<>>, <<1>>)) @@ ("translations" :> T(<<3>>, SomeTrans))),
     Dict(("rotations" :> T(<<1, 4>>, <<1, 0, -1, 2>>)) @@ ("translations" :> T(<<1, 3>>, SomeTrans))),
     Dict(("rotations" :> T(<<3, 3>>, [n \in 1..9 |-> 0])) @@ ("translations" :> T(<<3>>, SomeTrans)))}
\* records with a 'final_pose' tensor
PoseFiles ==
    {Dict("final_pose" :> [BuildPose(FromEulerZXY(r), t) EXCEPT !.shape = sh]) :
        r \in SmallRotVecs, t \in TransVecs, sh \in {<<4, 4>>, <<1, 4, 4>>}}
    \cup {Dict(("final_pose" :> BuildPose(FromEulerZXY(r), SomeTrans))
               @@ ("rotations" :> T(<<3>>, SomeRot))
               @@ ("translations" :> T(<<3>>, <<Mm(0), Mm(0), Mm(0)>>))) : r \in SmallRotVecs}
BadPoseFiles ==
    {Dict("final_pose" :> T(<<3, 3>>, [n \in 1..9 |-> One])),
     Dict("final_pose" :> T(<<16>>, BuildPose(FromEulerZXY(SomeRot), SomeTrans).data)),
     Dict("final_pose" :> T(<<1, 3, 1, 3>>, [n \in 1..9 |-> One])),
     Dict(("final_pose" :> T(<<2, 4, 4>>, [n \in 1..32 |-> Zero]))
          @@ ("rotations" :> T(<<3>>, SomeRot)) @@ ("translations" :> T(<<3>>, SomeTrans))),
     Dict("final_pose" :> ZeroMatrix)}
\* records with no pose data, and records whose entries are no tensors
OtherFiles ==
    {Dict(<<>>),
     Dict("rotations" :> T(<<3>>, SomeRot)),
     Dict("translations" :> T(<<3>>, SomeTrans)),
     Dict("final_pose" :> NonTensor),
     Dict(("final_pose" :> NonTensor) @@ ("translations" :> T(<<3>>, SomeTrans))),
     Dict(("final_pose" :> NonTensor) @@ ("rotations" :> T(<<3>>, SomeRot))
          @@ ("translations" :> T(<<3>>, SomeTrans))),
     Dict(("rotations" :> NonTensor) @@ ("translations" :> T(<<3>>, SomeTrans))),
     Dict(("rotations" :> T(<<3>>, SomeRot)) @@ ("translations" :> NonTensor))}
Files ==
    {MissingFile, CorruptFile, NotDictFile}
    \cup PairFiles \cup BadPairFiles \cup PoseFiles \cup BadPoseFiles \cup OtherFiles

\* --------------------------------------------- xvr_pose_viewer_widget
\* lines 125-218: what follows the reset of the display
LoadFile(f) ==
    IF f.kind = "missing"
    THEN Outcome(FALSE, <<FileNotFoundMsg>>, NoValue, NoValue, NoValue, FALSE, NothingWritten, NothingWritten)
    ELSE HandleException(
            IF f.kind = "corrupt"
            THEN Outcome(TRUE, <<>>, NoValue, NoValue, NoValue, FALSE, NothingWritten, NothingWritten)
            ELSE IF f.kind = "notdict"
            THEN Outcome(FALSE, <<NotDictMsg>>, NoValue, NoValue, NoValue, FALSE, NothingWritten, NothingWritten)
            ELSE ExtractAndDisplay(SelectPose(f.data)))

\* One press of "Load Parameters & Display Pose" with the file f chosen.
ViewerInit ==
    /\ initialized_ui = FALSE
    /\ rot_spinboxes = <<>>
    /\ trans_spinboxes = <<>>
    /\ parameters_file = MissingFile
    /\ shown = <<>>
    /\ raised = FALSE
    /\ final_pose_matrix = NoValue
    /\ euler_angles = NoValue
    /\ translation_vec = NoValue
    /\ reconstructed = FALSE
    /\ dirty_on_entry = FALSE
    /\ set_value_calls = <<>>
    /\ file_opens = <<>>
    /\ record_after = NoValue
    /\ widgets_created = 0
    /\ group_attached = 0
    /\ rot_widgets = <<>>
    /\ trans_widgets = <<>>
    /\ written_to = {}

\* lines 125-132: is_file() opens nothing; torch.load opens the file once, to read
OpenCalls(f) == IF f.kind = "missing" THEN <<>> ELSE <<"rb">>
\* a variant in which squeeze reshapes the record's tensors themselves, for comparison
SqueezedInPlace(data) ==
    [k \in DOMAIN data |-> IF data[k].tensor THEN Squeeze(data[k]) ELSE data[k]]
\* lines 134-211: the record when the handler ends.  squeeze(), cpu(), numpy()
\* and np.atleast_1d return new objects or views and nothing is assigned
\* through them; the element assignments of lines 163-164 go to the new
\* np.eye(4) array; no key of the dict is set or deleted.
RecordAfter(data) == data

\* a variant that sets the display up on every invocation, for comparison
SetupAlways(initialized) == TRUE
\* line 66: if not hasattr(xvr_pose_viewer_widget, "_initialized_ui")
SetupNeeded(initialized) == ~initialized
\* lines 76 and 92: the order in which the boxes are created
RotOrder == <<"Z", "X", "Y">>
TransOrder == <<"X", "Y", "Z">>
\* lines 75-104: one new QDoubleSpinBox per axis, after those created before
NewWidgets(order, before) ==
    [a \in {order[i] : i \in DOMAIN order} |->
        before + (CHOOSE i \in DOMAIN order : order[i] = a)]

\* LoadFile of every file, computed once
Loaded == [f \in Files |-> LoadFile(f)]

\* a spinbox shows the value written last: the reset's, or a later setValue's
Shows(reset, written) ==
    [a \in DOMAIN reset |-> IF a \in DOMAIN written THEN written[a] ELSE reset[a]]

xvr_pose_viewer_widget(f) ==
    \E o \in {Loaded[f]} :
        /\ initialized_ui' = TRUE
        /\ parameters_file' = f
        /\ shown' = <<AttemptMsg>> \o o.notes
        /\ raised' = o.exc
        /\ final_pose_matrix' = o.matrix
        /\ euler_angles' = o.euler
        /\ translation_vec' = o.tvec
        /\ reconstructed' = o.built
        /\ set_value_calls' = IF o.euler = NoValue THEN <<>> ELSE SetValueCalls(o.euler, o.tvec)
        /\ file_opens' = OpenCalls(f)
        /\ record_after' = IF f.kind = "dict" THEN RecordAfter(f.data) ELSE NoValue
        /\ dirty_on_entry' = (\/ \E a \in DOMAIN rot_spinboxes : rot_spinboxes[a] # Zero
                              \/ \E a \in DOMAIN trans_spinboxes : trans_spinboxes[a] # Zero)
        /\ rot_spinboxes' =
              Shows(ResetDisplay(IF SetupNeeded(initialized_ui) THEN NewSpinboxes(RotAxes)
                                 ELSE rot_spinboxes), o.rot)
        /\ trans_spinboxes' =
              Shows(ResetDisplay(IF SetupNeeded(initialized_ui) THEN NewSpinboxes(TransAxes)
                                 ELSE trans_spinboxes), o.trans)
        /\ IF SetupNeeded(initialized_ui)
           THEN /\ widgets_created' = widgets_created + Len(RotOrder) + Len(TransOrder)
                /\ rot_widgets' = NewWidgets(RotOrder, widgets_created)
                /\ trans_widgets' = NewWidgets(TransOrder, widgets_created + Len(RotOrder))
                /\ group_attached' = group_attached + 1
           ELSE UNCHANGED <<widgets_created, rot_widgets, trans_widgets, group_attached>>
        /\ written_to' = {rot_widgets'[a] : a \in RotAxes} \cup {trans_widgets'[a] : a \in TransAxes}

ViewerNext == \E f \in Files : xvr_pose_viewer_widget(f)

\* ------------------------------------------------ the viewer's claims
\* What a file is, read off its contents alone.
IsDict(f) == f.kind = "dict"
ReadError(f) == f.kind \in {"missing", "corrupt", "notdict"}
HasUsablePose(f) == IsDict(f) /\ "final_pose" \in DOMAIN f.data /\ f.data["final_pose"].tensor
HasPair(f) == IsDict(f) /\ "rotations" \in DOMAIN f.data /\ "translations" \in DOMAIN f.data
NotFoundRecord(f) == IsDict(f) /\ ~HasUsablePose(f) /\ ~HasPair(f)
UsesPair(f) ==
    /\ HasPair(f) /\ ~HasUsablePose(f)
    /\ f.data["rotations"].tensor /\ f.data["translations"].tensor
Reduced(t) == AtLeast1d(Squeeze(t)).shape
GoodPair(f) ==
    /\ UsesPair(f)
    /\ Reduced(f.data["rotations"]) = <<3>>
    /\ Reduced(f.data["translations"]) = <<3>>
PairShapeError(f) == UsesPair(f) /\ ~GoodPair(f)
GoodPoseShape(f) == HasUsablePose(f) /\ Squeeze(f.data["final_pose"]).shape = <<4, 4>>
PoseShapeError(f) == HasUsablePose(f) /\ ~GoodPoseShape(f)
\* the pose a file holds, as a 4x4 tensor
PoseOf(f) ==
    IF HasUsablePose(f) THEN Squeeze(f.data["final_pose"])
    ELSE BuildPose(FromEulerZXY(f.data["rotations"].data), f.data["translations"].data)
Succeeds(f) ==
    /\ GoodPoseShape(f) \/ GoodPair(f)
    /\ ~FromMatrixRaises(RotationBlock(PoseOf(f)))
AllZero ==
    /\ \A a \in RotAxes : rot_spinboxes[a] = Zero
    /\ \A a \in TransAxes : trans_spinboxes[a] = Zero
Notified(m) == \E i \in 1..Len(shown) : shown[i] = m
\* the six fields show the pose p, each as far as the range of its box goes
ShowsPose(p) ==
    LET e == AsEulerZXY(RotationBlock(p))
        t == TranslationColumn(p)
    IN  /\ rot_spinboxes["Z"] = SetValue(e[1], RotRange)
        /\ rot_spinboxes["X"] = SetValue(e[2], RotRange)
        /\ rot_spinboxes["Y"] = SetValue(e[3], RotRange)
        /\ trans_spinboxes["X"] = SetValue(t[1], TransRange)
        /\ trans_spinboxes["Y"] = SetValue(t[2], TransRange)
        /\ trans_spinboxes["Z"] = SetValue(t[3], TransRange)

\* C1: after any sequence of loads the six fields reflect the last load alone:
\* all zero when it failed (whatever was displayed before), the pose of its
\* file when it succeeded.
C1_LastLoadOnly ==
    initialized_ui =>
        IF Succeeds(parameters_file) THEN ShowsPose(PoseOf(parameters_file)) ELSE AllZero
\* a failed load that began with a pose on display
C1_Witness ==
    initialized_ui /\ dirty_on_entry /\ ~Succeeds(parameters_file) /\ AllZero

\* C2: a record with neither a final_pose tensor nor both rotations and
\* translations ends in NotFound: nothing is raised, the fields are zero and
\* the user is told that no pose data was found.
C2_NotFound ==
    (initialized_ui /\ NotFoundRecord(parameters_file)) =>
        (~raised /\ AllZero /\ Notified(NoPoseMsg) /\ ~Notified(LoadedMsg)
         /\ final_pose_matrix = NoValue)
C2_Witness ==
    /\ initialized_ui /\ NotFoundRecord(parameters_file)
    /\ "rotations" \in DOMAIN parameters_file.data
    /\ dirty_on_entry /\ Notified(NoPoseMsg)

\* C3: a rotations/translations pair that does not reduce to length 3 each is
\* reported as a shape error and not as NotFound; no pose is built from it.
C3_ShapeErrorNotNotFound ==
    (initialized_ui /\ PairShapeError(parameters_file)) =>
        (/\ ~reconstructed /\ final_pose_matrix = NoValue /\ AllZero
         /\ Notified(UnexpectedShapesMsg)
         /\ ~Notified(NoPoseMsg))

\* C4: every shape error (a final_pose that does not reduce to 4x4, a pair
\* that does not reduce to length 3 each) leaves the fields zero and shows a
\* notification that includes the offending shape.
OffendingShapes(f) ==
    IF PoseShapeError(f) THEN {Squeeze(f.data["final_pose"]).shape}
    ELSE {Reduced(f.data[k]) : k \in {"rotations", "translations"}} \ {<<3>>}
C4_ShapeErrorsNameShape ==
    (initialized_ui /\ (PoseShapeError(parameters_file) \/ PairShapeError(parameters_file))) =>
        (/\ ~raised /\ AllZero
         /\ \E i \in 1..Len(shown) : shown[i].shapes \cap OffendingShapes(parameters_file) # {})

\* C5: a missing file, a file that cannot be deserialized and a file that is
\* no dictionary are reported to the user; nothing is raised and no pose is
\* displayed.
C5_ReadErrorReported ==
    (initialized_ui /\ ReadError(parameters_file)) =>
        (/\ ~raised /\ AllZero /\ final_pose_matrix = NoValue /\ ~Notified(LoadedMsg)
         /\ parameters_file.kind = "missing" => Notified(FileNotFoundMsg)
         /\ parameters_file.kind = "corrupt" => Notified(ProcessingErrorMsg)
         /\ parameters_file.kind = "notdict" => Notified(NotDictMsg))
C5_Witness ==
    /\ initialized_ui /\ parameters_file.kind = "corrupt" /\ dirty_on_entry
    /\ Notified(ProcessingErrorMsg) /\ ~raised

\* C6: a final_pose tensor that squeezes to 4x4 is the pose, unchanged: the
\* rotations/translations branch is not run, and what is decomposed and
\* displayed is the stored rotation block and translation column.
StoredMatrix(f) ==
    [i \in 1..4 |-> [j \in 1..4 |-> f.data["final_pose"].data[(i - 1) * 4 + j]]]
C6_FinalPoseUnchanged ==
    (initialized_ui /\ GoodPoseShape(parameters_file)) =>
        (/\ ~reconstructed
         /\ final_pose_matrix = StoredMatrix(parameters_file)
         /\ translation_vec = [i \in 1..3 |-> StoredMatrix(parameters_file)[i][4]]
         /\ Succeeds(parameters_file) =>
               (/\ euler_angles =
                      AsEulerZXY([i \in 1..3 |-> [j \in 1..3 |-> StoredMatrix(parameters_file)[i][j]]])
                /\ ShowsPose(Squeeze(parameters_file.data["final_pose"]))
                /\ Notified(LoadedMsg)))
\* a displayed final_pose whose record also holds a pair describing another pose
C6_Witness ==
    /\ initialized_ui /\ GoodPoseShape(parameters_file) /\ HasPair(parameters_file)
    /\ Notified(LoadedMsg)
    /\ final_pose_matrix = StoredMatrix(parameters_file)
    /\ BuildPose(FromEulerZXY(parameters_file.data["rotations"].data),
                 parameters_file.data["translations"].data).data
          # parameters_file.data["final_pose"].data

\* C7: round trip.  A pose composed from stored Euler angles (Z-X-Y) and a
\* translation decomposes to the same angles (in degrees) and translation.
RoundTrips(f) ==
    /\ euler_angles = [i \in 1..3 |-> Deg(45 * f.data["rotations"].data[i])]
    /\ translation_vec = f.data["translations"].data
\* the claim as written: for every rotation
C7_RoundTripEveryRotation ==
    (initialized_ui /\ GoodPair(parameters_file)) => RoundTrips(parameters_file)
\* as amended: for Z and Y angles strictly inside (-180, 180) degrees and an X
\* angle strictly inside (-90, 90) degrees
Canonical(rot) ==
    /\ -4 < rot[1] /\ rot[1] < 4
    /\ -2 < rot[2] /\ rot[2] < 2
    /\ -4 < rot[3] /\ rot[3] < 4
C7_RoundTripCanonical ==
    (initialized_ui /\ GoodPair(parameters_file)
       /\ Canonical(parameters_file.data["rotations"].data)) =>
        (reconstructed /\ RoundTrips(parameters_file))
C7_Witness ==
    /\ initialized_ui /\ GoodPair(parameters_file) /\ reconstructed
    /\ parameters_file.data["rotations"].data = <<2, -1, 1>>
    /\ parameters_file.data["translations"].data = <<Mm(6000), Mm(0), Mm(-7000)>>
    /\ euler_angles = <<Deg(90), Deg(-45), Deg(45)>>

\* =====================================================================
\* The registration forms and their command vectors
\* =====================================================================
\* ------------------------------------------------------- Python values
PyNone == "None"
\* a float, by its repr
Float(repr) == [repr |-> repr]
\* str() of an int and of a float
StrInt(n) == ToString(n)
StrFloat(x) == x.repr
\* truth of a str-or-None value
Truthy(v) == v # PyNone /\ v # ""
\* a variant that adds the items whatever the condition, for comparison
OptAlways(cond, items) == items
\* if <cond>: command.extend(<items>)
Opt(cond, items) == IF cond THEN items ELSE <<>>

\* ------------------------------------------------------ the file system
VolumeFile == "~/xvr_data/volume.nii.gz"
CheckpointFile == "~/xvr_models/model.pth"
DicomFile == "~/xvr_data/xray.dcm"
DicomDir == "~/xvr_data/xrays"
MaskFile == "~/xvr_data/mask.nii.gz"
WarpFile == "~/xvr_data/warp.tfm"
HomeDir == "~"
ResultsDir == "./registration_results"
NewDir == "~/results/new"
NoSuchPath == "~/no/such/path"
ExistingFiles == {VolumeFile, CheckpointFile, DicomFile, MaskFile, WarpFile}
ExistingDirs == {HomeDir, DicomDir}
IsFile(path) == path \in ExistingFiles
Exists(path) == path \in ExistingFiles \cup ExistingDirs \cup created_dirs

\* ------------------------------------------------------------ the forms
Launchers == {"model", "dicom", "fixed"}

\* the parameters the three widgets share, with the defaults of their signatures
SharedDefaults ==
    [mask_path |-> PyNone, crop |-> 0, subtract_background |-> FALSE,
     reducefn |-> "max", labels |-> "", reverse_x_axis |-> FALSE,
     renderer |-> "trilinear", scales |-> "8", parameterization |-> "euler_angles",
     convention |-> "ZXY", lr_rot |-> Float("0.01"), lr_xyz |-> Float("1.0"),
     patience |-> 10, threshold |-> Float("0.0001"), max_n_itrs |-> 500,
     max_n_plateaus |-> 3, init_only |-> FALSE, save_images |-> TRUE,
     verbose_level |-> 1]
\* xvr_register_widget (xvr_register_gui.py lines 261-301)
ModelDefaults ==
    SharedDefaults @@
    [volume_path |-> VolumeFile, checkpoint_path |-> CheckpointFile,
     output_path |-> ResultsDir, dicom_path |-> DicomFile, linearize |-> TRUE,
     warp_path |-> PyNone, invert |-> FALSE, pattern |-> "*.dcm"]
\* xvr_register_dicom_widget (registration-dicom.py lines 166-202)
DicomDefaults ==
    SharedDefaults @@
    [volume_path |-> HomeDir, output_path |-> HomeDir, dicom_path |-> HomeDir,
     orientation |-> "AP", linearize |-> FALSE]
\* xvr_register_fixed_widget (registration-fixed.py lines 172-208)
FixedDefaults ==
    DicomDefaults @@
    [rx |-> Float("0.0"), ry |-> Float("0.0"), rz |-> Float("0.0"),
     tx |-> Float("0.0"), ty |-> Float("0.0"), tz |-> Float("1500.0")]
Defaults(l) ==
    CASE l = "model" -> ModelDefaults
      [] l = "dicom" -> DicomDefaults
      [] l = "fixed" -> FixedDefaults

\* what the user can enter in each field, besides its default
SharedEntries ==
    [mask_path |-> {MaskFile, NoSuchPath}, crop |-> {10},
     subtract_background |-> {TRUE}, reducefn |-> {"mean", "sum"}, labels |-> {"1,2"},
     reverse_x_axis |-> {TRUE}, renderer |-> {"siddon"}, scales |-> {"8,4,2"},
     parameterization |-> {"quaternions"}, convention |-> {"XYZ"},
     lr_rot |-> {Float("0.02")}, lr_xyz |-> {Float("2.0")}, patience |-> {20},
     threshold |-> {Float("0.001")}, max_n_itrs |-> {100}, max_n_plateaus |-> {5},
     init_only |-> {TRUE}, save_images |-> {FALSE}, verbose_level |-> {0, 2},
     volume_path |-> {VolumeFile, NoSuchPath}, output_path |-> {NewDir},
     dicom_path |-> {DicomFile, DicomDir, NoSuchPath}, linearize |-> {TRUE, FALSE}]
ModelEntries ==
    SharedEntries @@
    [checkpoint_path |-> {NoSuchPath}, warp_path |-> {WarpFile}, invert |-> {TRUE},
     pattern |-> {"*.png"}]
DicomEntries == SharedEntries @@ [orientation |-> {"PA"}]
FixedEntries ==
    DicomEntries @@
    [rx |-> {Float("90.0")}, ry |-> {Float("-45.5")}, rz |-> {Float("180.0")},
     tx |-> {Float("-12.5")}, ty |-> {Float("30.0")}, tz |-> {Float("850.0")}]
Entries(l) ==
    CASE l = "model" -> ModelEntries
      [] l = "dicom" -> DicomEntries
      [] l = "fixed" -> FixedEntries

\* the defaults, with a volume chosen where the default is no file
Ready(l) == [Defaults(l) EXCEPT !.volume_path = VolumeFile]
Distance(l, c) == Cardinality({k \in DOMAIN c : c[k] # Ready(l)[k]})

\* ------------------------------------------------- the command vectors
\* a variant that leaves the X-ray path out, for comparison
NoXrayArgument(c) == <<>>
\* command.append(config["dicom_path"]) (xvr_register_gui.py line 133,
\* registration-dicom.py line 72, registration-fixed.py line 70)
XrayArgument(c) == <<c.dicom_path>>
\* registration-dicom.py lines 24-27: the two values are exchanged on purpose
DicomRendererFlags(c) == <<"--renderer", c.reducefn, "--reducefn", c.renderer>>

\* run_xvr_register_dicom_cli, lines 17-72
DicomCommand(c) ==
    <<"xvr", "register", "dicom">>
    \o <<"-v", c.volume_path>>
    \o <<"-o", c.output_path>>
    \o <<"--orientation", c.orientation>>
    \o DicomRendererFlags(c)
    \o Opt(Truthy(c.mask_path), <<"-m", c.mask_path>>)
    \o Opt(c.crop # 0, <<"--crop", StrInt(c.crop)>>)
    \o Opt(c.subtract_background, <<"--subtract_background">>)
    \o Opt(c.linearize, <<"--linearize">>)
    \o Opt(Truthy(c.labels), <<"--labels", c.labels>>)
    \o Opt(c.scales # "8", <<"--scales", c.scales>>)
    \o Opt(c.reverse_x_axis, <<"--reverse_x_axis">>)
    \o Opt(c.parameterization # "euler_angles", <<"--parameterization", c.parameterization>>)
    \o Opt(c.convention # "ZXY", <<"--convention", c.convention>>)
    \o Opt(c.lr_rot # Float("0.01"), <<"--lr_rot", StrFloat(c.lr_rot)>>)
    \o Opt(c.lr_xyz # Float("1.0"), <<"--lr_xyz", StrFloat(c.lr_xyz)>>)
    \o Opt(c.patience # 10, <<"--patience", StrInt(c.patience)>>)
    \o Opt(c.threshold # Float("0.0001"), <<"--threshold", StrFloat(c.threshold)>>)
    \o Opt(c.max_n_itrs # 500, <<"--max_n_itrs", StrInt(c.max_n_itrs)>>)
    \o Opt(c.max_n_plateaus # 3, <<"--max_n_plateaus", StrInt(c.max_n_plateaus)>>)
    \o Opt(c.init_only, <<"--init_only">>)
    \o Opt(c.save_images, <<"--saveimg">>)
    \o Opt(c.verbose_level # 1, <<"--verbose", StrInt(c.verbose_level)>>)
    \o XrayArgument(c)

\* run_xvr_register_fixed_cli, lines 17-70
FixedCommand(c) ==
    <<"xvr", "register", "fixed">>
    \o <<"-v", c.volume_path>>
    \o <<"-o", c.output_path>>
    \o <<"--orientation", c.orientation>>
    \o <<"--rot", StrFloat(c.rx) \o "," \o StrFloat(c.ry) \o "," \o StrFloat(c.rz)>>
    \o <<"--xyz", StrFloat(c.tx) \o "," \o StrFloat(c.ty) \o "," \o StrFloat(c.tz)>>
    \o Opt(Truthy(c.mask_path), <<"-m", c.mask_path>>)
    \o Opt(c.crop # 0, <<"--crop", StrInt(c.crop)>>)
    \o Opt(c.subtract_background, <<"--subtract_background">>)
    \o Opt(c.linearize, <<"--linearize">>)
    \o Opt(c.reducefn # "max", <<"--reducefn", c.reducefn>>)
    \o Opt(Truthy(c.labels), <<"--labels", c.labels>>)
    \o Opt(c.scales # "8", <<"--scales", c.scales>>)
    \o Opt(c.reverse_x_axis, <<"--reverse_x_axis">>)
    \o Opt(c.renderer # "trilinear", <<"--renderer", c.renderer>>)
    \o Opt(c.parameterization # "euler_angles", <<"--parameterization", c.parameterization>>)
    \o Opt(c.convention # "ZXY", <<"--convention", c.convention>>)
    \o Opt(c.lr_rot # Float("0.01"), <<"--lr_rot", StrFloat(c.lr_rot)>>)
    \o Opt(c.lr_xyz # Float("1.0"), <<"--lr_xyz", StrFloat(c.lr_xyz)>>)
    \o Opt(c.patience # 10, <<"--patience", StrInt(c.patience)>>)
    \o Opt(c.threshold # Float("0.0001"), <<"--threshold", StrFloat(c.threshold)>>)
    \o Opt(c.max_n_itrs # 500, <<"--max_n_itrs", StrInt(c.max_n_itrs)>>)
    \o Opt(c.max_n_plateaus # 3, <<"--max_n_plateaus", StrInt(c.max_n_plateaus)>>)
    \o Opt(c.init_only, <<"--init_only">>)
    \o Opt(c.save_images, <<"--saveimg">>)
    \o Opt(c.verbose_level # 1, <<"--verbose", StrInt(c.verbose_level)>>)
    \o XrayArgument(c)

\* run_xvr_register_cli, lines 77-133
ModelCommand(c) ==
    <<"script", "-q", "/dev/null", "xvr", "register", "model">>
    \o <<"-v", c.volume_path>>
    \o <<"-c", c.checkpoint_path>>
    \o <<"-o", c.output_path>>
    \o Opt(Truthy(c.mask_path), <<"-m", c.mask_path>>)
    \o Opt(c.crop # 0, <<"--crop", StrInt(c.crop)>>)
    \o Opt(c.subtract_background, <<"--subtract_background">>)
    \o Opt(c.reducefn # "max", <<"--reducefn", c.reducefn>>)
    \o Opt(Truthy(c.warp_path), <<"--warp", c.warp_path>>)
    \o Opt(c.invert, <<"--invert">>)
    \o Opt(Truthy(c.labels), <<"--labels", c.labels>>)
    \o Opt(c.scales # "8", <<"--scales", c.scales>>)
    \o Opt(c.reverse_x_axis, <<"--reverse_x_axis">>)
    \o Opt(c.renderer # "trilinear", <<"--renderer", c.renderer>>)
    \o Opt(c.parameterization # "euler_angles", <<"--parameterization", c.parameterization>>)
    \o Opt(c.convention # "ZXY", <<"--convention", c.convention>>)
    \o Opt(c.lr_rot # Float("0.01"), <<"--lr_rot", StrFloat(c.lr_rot)>>)
    \o Opt(c.lr_xyz # Float("1.0"), <<"--lr_xyz", StrFloat(c.lr_xyz)>>)
    \o Opt(c.patience # 10, <<"--patience", StrInt(c.patience)>>)
    \o Opt(c.threshold # Float("0.0001"), <<"--threshold", StrFloat(c.threshold)>>)
    \o Opt(c.max_n_itrs # 500, <<"--max_n_itrs", StrInt(c.max_n_itrs)>>)
    \o Opt(c.max_n_plateaus # 3, <<"--max_n_plateaus", StrInt(c.max_n_plateaus)>>)
    \o Opt(c.init_only, <<"--init_only">>)
    \o Opt(c.save_images, <<"--saveimg">>)
    \o Opt(c.pattern # "*.dcm", <<"--pattern", c.pattern>>)
    \o Opt(c.verbose_level # 1, <<"--verbose", StrInt(c.verbose_level)>>)
    \o XrayArgument(c)

Command(l, c) ==
    CASE l = "model" -> ModelCommand(c)
      [] l = "dicom" -> DicomCommand(c)
      [] l = "fixed" -> FixedCommand(c)

\* ------------------------------------------------------- the widgets
StartMsg(l) ==
    CASE l = "model" -> "Starting XVR registration (see terminal for live output)..."
      [] l = "dicom" -> "Starting XVR DICOM-Initialized Registration (check console for live output)..."
      [] l = "fixed" -> "Starting XVR Fixed-Pose Registration (check console for live output)..."
SuccessMsg == "XVR Registration completed successfully!"
WarningsMsg == "XVR Registration finished with warnings (check console)."
FailedMsg(code) == "XVR Registration failed with exit code " \o StrInt(code) \o "."
CommandNotFoundMsg(l) ==
    IF l = "model" THEN "Error: script or xvr command not found. Ensure XVR is installed."
    ELSE "Error: xvr command not found. Make sure your environment is activated."

\* except Exception as e (xvr_register_gui.py lines 177-179,
\* registration-dicom.py lines 118-120, registration-fixed.py lines 116-118)
UnexpectedErrorMsg(exception) == "An unexpected error occurred: " \o exception
\* what Popen can raise: the command is not installed, or another error
PopenExceptions == {"FileNotFoundError", "PermissionError"}
\* the except clauses, in order
PopenFailedMsg(l, exception) ==
    IF exception = "FileNotFoundError" THEN CommandNotFoundMsg(l)
    ELSE UnexpectedErrorMsg(exception)
\* a variant that reports success whatever the exit code, for comparison
AlwaysTrue(return_code) == "True"
\* return return_code == 0 (registration-dicom.py line 113; xvr_register_gui.py
\* lines 164 and 172)
ReturnValue(return_code) == IF return_code = 0 THEN "True" ELSE "False"
\* return False in both except clauses
ExceptReturn == "False"

\* a variant that checks the volume alone, for comparison
ValidationErrorVolumeOnly(l, c) ==
    IF ~IsFile(c.volume_path) THEN "Error: NIfTI Volume not found at " \o c.volume_path
    ELSE ""
\* Input validation: the notification of the first check that fails, or ""
\* (xvr_register_gui.py lines 304-313, registration-dicom.py lines 203-212,
\* registration-fixed.py lines 209-217)
ValidationError(l, c) ==
    IF ~IsFile(c.volume_path) THEN "Error: NIfTI Volume not found at " \o c.volume_path
    ELSE IF ~Exists(c.dicom_path) THEN "Error: DICOM X-ray input not found at " \o c.dicom_path
    ELSE IF l = "model"
    THEN (IF ~IsFile(c.checkpoint_path)
          THEN "Error: Model Checkpoint not found at " \o c.checkpoint_path ELSE "")
    ELSE (IF Truthy(c.mask_path) /\ ~IsFile(c.mask_path)
          THEN "Error: Mask Labelmap not found at " \o c.mask_path ELSE "")

\* How the external process ended: it could not be started, or it exited
\* with a code, having written to standard error or not.
ProcessEnds ==
    {[started |-> FALSE, code |-> 0, stderr |-> FALSE]}
    \cup {[started |-> TRUE, code |-> k, stderr |-> e] : k \in {0, 1}, e \in BOOLEAN}

\* the notifications after the process has ended (xvr_register_gui.py lines
\* 156-176, registration-dicom.py lines 100-117, registration-fixed.py 98-115)
EndMsgs(l, e) ==
    IF ~e.started THEN <<CommandNotFoundMsg(l)>>
    ELSE IF e.code # 0 THEN <<FailedMsg(e.code)>>
    ELSE IF l = "model" /\ e.stderr THEN <<SuccessMsg, WarningsMsg>>
    ELSE <<SuccessMsg>>

CmdInit ==
    /\ launcher \in Launchers
    /\ form = Defaults(launcher)
    /\ cmd_pc = "idle"
    /\ command = <<>>
    /\ cmd_shown = <<>>
    /\ cmd_result = "none"
    /\ created_dirs = {}

\* The user edits one field of the form.
EditField ==
    \E k \in DOMAIN form : \E v \in Entries(launcher)[k] \cup {Defaults(launcher)[k]} :
        /\ v # form[k]
        /\ Distance(launcher, [form EXCEPT ![k] = v]) <= MaxChanged
        /\ form' = [form EXCEPT ![k] = v]
        /\ cmd_pc' = "idle"
        /\ command' = <<>>
        /\ cmd_shown' = <<>>
        /\ cmd_result' = "none"
        /\ UNCHANGED <<launcher, created_dirs>>

\* One press of the call button: the widget function, and the launcher it calls.
RegisterWidget ==
    \E err \in {ValidationError(launcher, form)} :
        /\ cmd_pc' = "returned"
        /\ UNCHANGED <<launcher, form>>
        /\ IF err # ""
           THEN /\ cmd_shown' = <<err>>
                /\ command' = <<>>
                /\ cmd_result' = "none"
                /\ UNCHANGED created_dirs
           ELSE \E e \in ProcessEnds :
                /\ created_dirs' = created_dirs \cup ({form.output_path} \ ExistingDirs)
                /\ command' = Command(launcher, form)
                /\ cmd_shown' = <<StartMsg(launcher)>> \o EndMsgs(launcher, e)
                /\ cmd_result' = IF e.started THEN ReturnValue(e.code) ELSE ExceptReturn

\* =====================================================================
\* The external process and the relay of its output
\* (run_xvr_register_cli, run_xvr_register_dicom_cli,
\*  run_xvr_register_fixed_cli, from Popen to return)
\* =====================================================================
\* Text is a sequence of characters; a launcher's own message is one token.
Whitespace == {" ", "\t", "\n", "\r"}
RECURSIVE LStrip(_)
LStrip(text) ==
    IF text # <<>> /\ Head(text) \in Whitespace THEN LStrip(Tail(text)) ELSE text
RECURSIVE RStrip(_)
RStrip(text) ==
    IF text # <<>> /\ text[Len(text)] \in Whitespace
    THEN RStrip(SubSeq(text, 1, Len(text) - 1)) ELSE text
\* str.strip()
Strip(text) == RStrip(LStrip(text))
\* print(text): the text and a newline
Println(text) == text \o <<"\n">>
\* a variant that prints the line as read, for comparison
RelayRaw(line) == line
\* registration-dicom.py lines 93-94: if line: print(line.strip())
Relay(line) == IF line # <<>> THEN Println(Strip(line)) ELSE <<>>

\* the lines a child may write
PlainLine == <<"o", "k", "\n">>
PaddedLine == <<" ", " ", "4", "2", "%", " ", "\n">>
BlankLine == <<"\n">>
Lines == {PlainLine, PaddedLine, BlankLine}
Writes == [stream : {"out", "err"}, line : Lines]
Scripts == UNION {[1..n -> Writes] : n \in 0..MaxWrites}

RECURSIVE Flatten(_)
Flatten(lines) == IF lines = <<>> THEN <<>> ELSE Head(lines) \o Flatten(Tail(lines))

\* what the launcher prints before Popen (e.g. registration-dicom.py lines 15, 74)
LogHeader(l) ==
    CASE l = "model" -> "\n--- XVR Registration Log ---"
      [] l = "dicom" -> "\n--- XVR DICOM-Initialized Registration Log ---"
      [] l = "fixed" -> "\n--- XVR Fixed-Pose Registration Log ---"
Preamble(l) == Println(<<LogHeader(l)>>) \o Println(<<"Executing command: {' '.join(command)}">>)
LogEnd == Println(<<"--- End XVR Registration Log ---">>)

\* the prints after the process has ended
\* (registration-dicom.py lines 100-111, registration-fixed.py lines 98-109)
PipedEndPrints(code, err) ==
    IF code = 0
    THEN Opt(err # <<>>, Println(<<"--- STDERR Output ---">>) \o Println(err))
    ELSE Println(<<FailedMsg(code)>>)
         \o Opt(err # <<>>, Println(<<"--- STDERR Output (Failure) ---">>) \o Println(err))
\* (xvr_register_gui.py lines 157-172)
ModelEndPrints(code, err) ==
    IF code = 0
    THEN Println(<<"\nXVR Registration CLI completed successfully.">>)
         \o Opt(err # <<>>, Println(<<"--- STDERR Output (Warnings/Errors) ---">>) \o Println(err))
    ELSE Println(<<"\n" \o FailedMsg(code)>>)
         \o Opt(err # <<>>, Println(<<"--- STDERR Output (Failure) ---">>) \o Println(err))
EndPrints(l, code, err) ==
    IF l = "model" THEN ModelEndPrints(code, err) ELSE PipedEndPrints(code, err)

RunInit ==
    /\ child_script \in Scripts
    /\ child_exit \in {0, 1}
    /\ popen_fails \in BOOLEAN
    /\ popen_exception \in (IF popen_fails THEN PopenExceptions ELSE {"FileNotFoundError"})
    /\ child_pos = 0
    /\ child_state = "none"
    /\ out_pipe = <<>>
    /\ err_pipe = <<>>
    /\ stderr_output = <<>>
    /\ console = <<>>

\* The call button is pressed on a valid form: the widget validates, creates
\* the output directory and calls the launcher, which builds the command,
\* announces the start and calls subprocess.Popen.
StartProcess ==
    /\ cmd_pc = "idle"
    /\ ValidationError(launcher, form) = ""
    /\ created_dirs' = created_dirs \cup ({form.output_path} \ ExistingDirs)
    /\ command' = Command(launcher, form)
    /\ IF popen_fails
       THEN /\ cmd_shown' = <<StartMsg(launcher), PopenFailedMsg(launcher, popen_exception)>>
            /\ console' = Preamble(launcher) \o LogEnd
            /\ cmd_result' = ExceptReturn
            /\ cmd_pc' = "returned"
            /\ UNCHANGED child_state
       ELSE /\ cmd_shown' = <<StartMsg(launcher)>>
            /\ console' = Preamble(launcher)
            /\ cmd_result' = "none"
            /\ cmd_pc' = IF launcher = "model" THEN "communicate" ELSE "readline"
            /\ child_state' = "running"
    /\ UNCHANGED <<launcher, form, child_script, child_exit, popen_fails, popen_exception, child_pos,
                   out_pipe, err_pipe, stderr_output>>

\* The child writes its next line.  A write to a pipe waits while the pipe is
\* full.  The model launcher passes no stdout to Popen: the child's standard
\* output is the terminal itself.
ChildWrite ==
    /\ child_state = "running"
    /\ child_pos < Len(child_script)
    /\ LET w == child_script[child_pos + 1]
       IN  \/ /\ w.stream = "out" /\ launcher = "model"
              /\ console' = console \o w.line
              /\ UNCHANGED <<out_pipe, err_pipe>>
           \/ /\ w.stream = "out" /\ launcher # "model"
              /\ Len(out_pipe) < PipeCap
              /\ out_pipe' = Append(out_pipe, w.line)
              /\ UNCHANGED <<console, err_pipe>>
           \/ /\ w.stream = "err"
              /\ Len(err_pipe) < PipeCap
              /\ err_pipe' = Append(err_pipe, w.line)
              /\ UNCHANGED <<console, out_pipe>>
    /\ child_pos' = child_pos + 1
    /\ UNCHANGED <<cmdVars, child_script, child_exit, popen_fails, popen_exception, child_state,
                   stderr_output>>

\* The child has written everything: it exits, which closes its pipes.
ChildExit ==
    /\ child_state = "running"
    /\ child_pos = Len(child_script)
    /\ child_state' = "exited"
    /\ UNCHANGED <<cmdVars, child_script, child_exit, popen_fails, popen_exception, child_pos, out_pipe,
                   err_pipe, stderr_output, console>>

\* registration-dicom.py lines 89-95 (registration-fixed.py 87-93):
\* line = process.stdout.readline() returns a line; it is printed stripped
ReadLine ==
    /\ cmd_pc = "readline"
    /\ out_pipe # <<>>
    /\ console' = console \o Relay(Head(out_pipe))
    /\ out_pipe' = Tail(out_pipe)
    /\ UNCHANGED <<cmdVars, child_script, child_exit, popen_fails, popen_exception, child_pos, child_state,
                   err_pipe, stderr_output>>

\* the launcher's calls once the read loop has ended: stderr.read(), wait(),
\* the notification and the prints, the return
Finish ==
    /\ cmd_shown' = cmd_shown \o EndMsgs(launcher,
                        [started |-> TRUE, code |-> child_exit, stderr |-> err_pipe # <<>>])
    /\ stderr_output' = Flatten(err_pipe)
    /\ err_pipe' = <<>>
    /\ console' = console \o PipedEndPrints(child_exit, Flatten(err_pipe)) \o LogEnd
    /\ cmd_result' = ReturnValue(child_exit)
    /\ cmd_pc' = "returned"

\* process.stdout.readline() returns '' at the end of file alone: nothing is
\* left in the pipe and its write end is closed (the child has exited)
EndOfFile(pipe, state) == pipe = <<>> /\ state = "exited"
\* process.poll() is not None
Polled(state) == state = "exited"
\* a variant that leaves the loop as soon as the child has exited, for comparison
LoopBreakOnPoll(line_is_empty, polled) == polled
\* registration-dicom.py line 91 (registration-fixed.py line 89):
\* if line == '' and process.poll() is not None: break
LoopBreak(line_is_empty, polled) == line_is_empty /\ polled

\* lines 91-92: readline returns '' (end of file) and poll() is not None: break;
\* lines 97-122: the rest of the function
LoopEnds ==
    /\ cmd_pc = "readline"
    /\ LoopBreak(EndOfFile(out_pipe, child_state), Polled(child_state))
    /\ Finish
    /\ UNCHANGED <<launcher, form, command, created_dirs, child_script, child_exit,
                   popen_fails, popen_exception, child_pos, child_state, out_pipe>>

\* xvr_register_gui.py line 153: process.communicate() reads standard error
CommunicateReads ==
    /\ cmd_pc = "communicate"
    /\ err_pipe # <<>>
    /\ stderr_output' = stderr_output \o Head(err_pipe)
    /\ err_pipe' = Tail(err_pipe)
    /\ UNCHANGED <<cmdVars, child_script, child_exit, popen_fails, popen_exception, child_pos, child_state,
                   out_pipe, console>>

\* communicate() returns at the end of file of stderr, once the child has
\* exited; lines 154-181: the rest of the function
CommunicateEnds ==
    /\ cmd_pc = "communicate"
    /\ err_pipe = <<>>
    /\ child_state = "exited"
    /\ cmd_shown' = cmd_shown \o EndMsgs(launcher,
                        [started |-> TRUE, code |-> child_exit, stderr |-> stderr_output # <<>>])
    /\ console' = console \o ModelEndPrints(child_exit, stderr_output) \o LogEnd
    /\ cmd_result' = ReturnValue(child_exit)
    /\ cmd_pc' = "returned"
    /\ UNCHANGED <<launcher, form, command, created_dirs, child_script, child_exit,
                   popen_fails, popen_exception, child_pos, child_state, out_pipe, err_pipe, stderr_output>>

\* =====================================================================
\* Properties of the launchers
\* =====================================================================
Range(seq) == {seq[i] : i \in 1..Len(seq)}
RECURSIVE Join(_)
Join(text) == IF text = <<>> THEN "" ELSE Head(text) \o Join(Tail(text))
Appears(text, stream) ==
    \E k \in 1..(Len(stream) - Len(text) + 1) : SubSeq(stream, k, k + Len(text) - 1) = text
\* the lines the child has written so far on one stream, in order
RECURSIVE Sent(_, _)
Sent(stream, n) ==
    IF n = 0 THEN <<>>
    ELSE Sent(stream, n - 1)
         \o Opt(child_script[n].stream = stream, <<child_script[n].line>>)
RECURSIVE StrippedLines(_)
StrippedLines(lines) ==
    IF lines = <<>> THEN <<>>
    ELSE Println(RStrip(LStrip(Head(lines)))) \o StrippedLines(Tail(lines))
Ran == cmd_pc = "returned" /\ child_state = "exited"

\* C8: in the command a launcher has built, the value after --renderer is
\* the Renderer field's value and the value after --reducefn is the
\* Multiframe Reduce Function field's value.
C8_OwnFlags ==
    command # <<>> =>
        \A i \in 1..(Len(command) - 1) :
            /\ command[i] = "--renderer" => command[i + 1] = form.renderer
            /\ command[i] = "--reducefn" => command[i + 1] = form.reducefn

\* C9: whatever the child writes, on standard output and standard error, the
\* launcher returns: until it has, the launcher or the child can take a step
\* (every run is finite, so a run that can always go on ends with the return).
C9_NeverWaitForever ==
    cmd_pc = "returned" \/ ENABLED (StartProcess \/ ChildWrite \/ ChildExit \/ ReadLine
                                    \/ LoopEnds \/ CommunicateReads \/ CommunicateEnds)

ProgramWords(l) == IF l = "model" THEN 6 ELSE 3
Arguments(l, cmd) == SubSeq(cmd, ProgramWords(l) + 1, Len(cmd))
\* the flags the launchers extend the vector with together with a value
ValuedFlags ==
    {"-v", "-c", "-o", "-m", "--orientation", "--rot", "--xyz", "--crop", "--reducefn",
     "--warp", "--labels", "--scales", "--renderer", "--parameterization", "--convention",
     "--lr_rot", "--lr_xyz", "--patience", "--threshold", "--max_n_itrs",
     "--max_n_plateaus", "--pattern", "--verbose"}
\* the flags they append alone
SwitchFlags ==
    {"--subtract_background", "--linearize", "--invert", "--reverse_x_axis",
     "--init_only", "--saveimg"}
\* the arguments that are neither a flag nor a flag's value, in order
RECURSIVE Positionals(_)
Positionals(args) ==
    IF args = <<>> THEN <<>>
    ELSE IF Head(args) \in ValuedFlags THEN Positionals(SubSeq(args, 3, Len(args)))
    ELSE IF Head(args) \in SwitchFlags THEN Positionals(Tail(args))
    ELSE <<Head(args)>> \o Positionals(Tail(args))

\* C11: in every command a launcher has built, the arguments after the
\* program's own words hold exactly one positional argument, the X-ray path,
\* and it is the last element of the vector.
C11_OnePositionalLast ==
    command # <<>> =>
        /\ Positionals(Arguments(launcher, command)) = <<form.dicom_path>>
        /\ command[Len(command)] = form.dicom_path
C11_Witness ==
    /\ command # <<>>
    /\ launcher = "fixed"
    /\ form.dicom_path = DicomDir
    /\ form.init_only
    /\ Len(command) > Len(Command(launcher, Ready(launcher)))

\* C12: when a launcher has returned, what it returned is True or False (it
\* raised nothing), and it is True exactly when the process was started and
\* exited with code 0.
C12_TrueIffExitZero ==
    cmd_pc = "returned" =>
        /\ cmd_result \in {"True", "False"}
        /\ cmd_result = "True" <=> (child_state = "exited" /\ child_exit = 0)
C12_Witness ==
    /\ cmd_pc = "returned"
    /\ cmd_result = "True"
    /\ child_pos = MaxWrites
    /\ stderr_output # <<>>

\* =====================================================================
\* Further properties of the pose viewer
\* =====================================================================
\* C13: after a successful load the three translation fields equal rows 0, 1
\* and 2 of the fourth column of the pose, whatever their magnitude.
C13_RawTranslation ==
    (initialized_ui /\ Succeeds(parameters_file)) =>
        /\ trans_spinboxes["X"] = TranslationColumn(PoseOf(parameters_file))[1]
        /\ trans_spinboxes["Y"] = TranslationColumn(PoseOf(parameters_file))[2]
        /\ trans_spinboxes["Z"] = TranslationColumn(PoseOf(parameters_file))[3]

\* C14: after a successful load the first, second and third angles of the
\* Z-X-Y decomposition are in Rot Z, Rot X and Rot Y, the translation
\* components 0, 1 and 2 in Trans X, Trans Y and Trans Z (each as far as the
\* range of its box goes), and each of the six boxes was written once.
C14_FieldOrder ==
    (initialized_ui /\ Succeeds(parameters_file)) =>
        LET e == AsEulerZXY(RotationBlock(PoseOf(parameters_file)))
            t == TranslationColumn(PoseOf(parameters_file))
        IN  /\ rot_spinboxes = [a \in RotAxes |->
                  SetValue(CASE a = "Z" -> e[1] [] a = "X" -> e[2] [] a = "Y" -> e[3], RotRange)]
            /\ trans_spinboxes = [a \in TransAxes |->
                  SetValue(CASE a = "X" -> t[1] [] a = "Y" -> t[2] [] a = "Z" -> t[3], TransRange)]
            /\ Len(set_value_calls) = 6
            /\ \A a \in RotAxes : \E i \in 1..6 :
                  /\ set_value_calls[i].boxes = "rot" /\ set_value_calls[i].axis = a
                  /\ \A j \in 1..6 : (set_value_calls[j].boxes = "rot"
                                      /\ set_value_calls[j].axis = a) => j = i
            /\ \A a \in TransAxes : \E i \in 1..6 :
                  /\ set_value_calls[i].boxes = "trans" /\ set_value_calls[i].axis = a
                  /\ \A j \in 1..6 : (set_value_calls[j].boxes = "trans"
                                      /\ set_value_calls[j].axis = a) => j = i
\* a pose whose three angles and three offsets are all different
C14_Witness ==
    /\ initialized_ui /\ Succeeds(parameters_file)
    /\ Cardinality({rot_spinboxes[a] : a \in RotAxes}) = 3
    /\ Cardinality({trans_spinboxes[a] : a \in TransAxes}) = 3
    /\ Len(set_value_calls) = 6

\* the 4x4 identity matrix
Identity4 == [i \in 1..4 |-> [j \in 1..4 |-> IF i = j THEN One ELSE Zero]]
IsZeroPair(f) ==
    /\ GoodPair(f)
    /\ f.data["rotations"].data = <<0, 0, 0>>
    /\ f.data["translations"].data = <<Zero, Zero, Zero>>

\* C15: loading a record with rotations = [0, 0, 0] and translations =
\* [0, 0, 0] builds the 4x4 identity matrix as the pose.
C15_ZeroPairBuildsIdentity ==
    (initialized_ui /\ IsZeroPair(parameters_file)) =>
        /\ reconstructed
        /\ final_pose_matrix = Identity4
C15_Witness ==
    initialized_ui /\ IsZeroPair(parameters_file) /\ reconstructed /\ Notified(LoadedMsg)

IsIdentityPose(f) ==
    /\ GoodPoseShape(f)
    /\ f.data["final_pose"].data =
          [n \in 1..16 |-> IF (n - 1) \div 4 = (n - 1) % 4 THEN One ELSE Zero]

\* C16: loading a record whose final_pose is the 4x4 identity succeeds: the
\* six fields show zero, the success notification is shown and no other.
C16_IdentityPoseShowsZeros ==
    (initialized_ui /\ IsIdentityPose(parameters_file)) =>
        /\ AllZero
        /\ ~raised
        /\ shown = <<AttemptMsg, LoadedMsg>>
        /\ euler_angles = <<Zero, Zero, Zero>>
        /\ translation_vec = <<Zero, Zero, Zero>>
\* the identity is loaded while another pose is on display
C16_Witness ==
    initialized_ui /\ IsIdentityPose(parameters_file) /\ dirty_on_entry /\ ~reconstructed

\* C17: loading rotations = [0, 0, pi/2] (radians, order Z-X-Y) with
\* translations = [10, 0, 0] shows Rot Z = 0, Rot X = 0, Rot Y = 90 degrees
\* and the translation (10, 0, 0) mm.
C17_QuarterTurnAboutY ==
    (initialized_ui /\ parameters_file = QuarterTurnFile) =>
        /\ rot_spinboxes["Z"] = Deg(0)
        /\ rot_spinboxes["X"] = Deg(0)
        /\ rot_spinboxes["Y"] = Deg(90)
        /\ trans_spinboxes["X"] = Mm(10)
        /\ trans_spinboxes["Y"] = Mm(0)
        /\ trans_spinboxes["Z"] = Mm(0)
        /\ Notified(LoadedMsg)
C17_Witness ==
    initialized_ui /\ parameters_file = QuarterTurnFile /\ reconstructed /\ ~raised

C19_WidgetsCreatedOnce ==
    initialized_ui =>
        /\ widgets_created = Len(RotOrder) + Len(TransOrder)
        /\ group_attached = 1
        /\ rot_widgets = NewWidgets(RotOrder, 0)
        /\ trans_widgets = NewWidgets(TransOrder, Len(RotOrder))
        /\ written_to = 1..(Len(RotOrder) + Len(TransOrder))
\* a later invocation: it began with the pose of an earlier one on display
C19_Witness ==
    /\ initialized_ui /\ dirty_on_entry
    /\ Succeeds(parameters_file)
    /\ widgets_created = Len(RotOrder) + Len(TransOrder)

\* =====================================================================
\* Further properties of the launchers
\* =====================================================================
\* the optional parameters that carry a value: the field, its flag, the
\* default the launchers compare it with, and how its value is put into the
\* vector (xvr_register_gui.py lines 89-130, registration-dicom.py lines
\* 31-69, registration-fixed.py lines 31-68)
OptionalValued ==
    {[field |-> "crop", flag |-> "--crop", kind |-> "int"],
     [field |-> "scales", flag |-> "--scales", kind |-> "str"],
     [field |-> "parameterization", flag |-> "--parameterization", kind |-> "str"],
     [field |-> "convention", flag |-> "--convention", kind |-> "str"],
     [field |-> "lr_rot", flag |-> "--lr_rot", kind |-> "float"],
     [field |-> "lr_xyz", flag |-> "--lr_xyz", kind |-> "float"],
     [field |-> "patience", flag |-> "--patience", kind |-> "int"],
     [field |-> "threshold", flag |-> "--threshold", kind |-> "float"],
     [field |-> "max_n_itrs", flag |-> "--max_n_itrs", kind |-> "int"],
     [field |-> "max_n_plateaus", flag |-> "--max_n_plateaus", kind |-> "int"],
     [field |-> "verbose_level", flag |-> "--verbose", kind |-> "int"]}
\* str(value), or the value itself when it is a str
StringForm(kind, v) ==
    CASE kind = "int" -> StrInt(v)
      [] kind = "float" -> StrFloat(v)
      [] kind = "str" -> v
Places(cmd, flag) == {i \in 1..Len(cmd) : cmd[i] = flag}

\* C20: in a command a launcher has built, each optional valued parameter's
\* flag is present exactly when the parameter differs from its default (so
\* none is present when all hold their defaults), at most once, and it is
\* followed directly by the string form of the value.
C20_FlagIffNotDefault ==
    command # <<>> =>
        \A p \in OptionalValued :
            /\ Places(command, p.flag) # {} <=> form[p.field] # SharedDefaults[p.field]
            /\ Cardinality(Places(command, p.flag)) <= 1
            /\ \A i \in Places(command, p.flag) :
                  /\ i < Len(command)
                  /\ command[i + 1] = StringForm(p.kind, form[p.field])
C20_Witness ==
    /\ command # <<>>
    /\ launcher = "dicom"
    /\ form.crop # SharedDefaults.crop
    /\ form.lr_rot # SharedDefaults.lr_rot
    /\ Places(command, "--crop") # {}
    /\ Places(command, "--lr_rot") # {}
    /\ Places(command, "--scales") = {}

\* the standard-output lines the launcher has read so far
ReadSoFar == SubSeq(Sent("out", child_pos), 1, Len(Sent("out", child_pos)) - Len(out_pipe))

C25_LinearizeControls ==
    command # <<>> => ("--linearize" \in Range(command) <=> form.linearize)

\* the checks of a registration widget, in the order of the widget's code
VolumeMissing == ~IsFile(form.volume_path)
XrayMissing == ~Exists(form.dicom_path)
CheckpointMissing == launcher = "model" /\ ~IsFile(form.checkpoint_path)
MaskMissing ==
    launcher # "model" /\ form.mask_path # PyNone /\ form.mask_path # ""
    /\ ~IsFile(form.mask_path)
FirstFailure ==
    IF VolumeMissing THEN "Error: NIfTI Volume not found at " \o form.volume_path
    ELSE IF XrayMissing THEN "Error: DICOM X-ray input not found at " \o form.dicom_path
    ELSE IF CheckpointMissing
    THEN "Error: Model Checkpoint not found at " \o form.checkpoint_path
    ELSE "Error: Mask Labelmap not found at " \o form.mask_path

\* C26: a press of the call button on a form that fails a check (the volume
\* is no existing file, the X-ray path does not exist, the model launcher's
\* checkpoint is no file, a mask given to the dicom or fixed launcher is no
\* file) shows the notification of the first failing check and nothing else,
\* creates no directory and hands no command to a subprocess.
C26_NoEffectBeforeValidation ==
    [][(cmd_pc' = "returned"
        /\ (VolumeMissing \/ XrayMissing \/ CheckpointMissing \/ MaskMissing)) =>
            /\ cmd_shown' = <<FirstFailure>>
            /\ created_dirs' = created_dirs
            /\ command' = <<>>
            /\ cmd_result' = "none"]_cmdVars
C26_Witness ==
    /\ cmd_pc = "returned"
    /\ launcher = "fixed"
    /\ ~VolumeMissing /\ ~XrayMissing /\ MaskMissing
    /\ cmd_shown = <<FirstFailure>>
    /\ command = <<>>
    /\ created_dirs = {NewDir}

\* =====================================================================
\* The launcher panel (xvr_register_gui.py: GUI_FILE_PATHS,
\* launch_selected_gui, create_launcher_widget)
\* =====================================================================
\* GUI_FILE_PATHS: the button's name -> the file name joined to BASE_DIR
GUI_FILE_PATHS ==
    [n \in {"Train Model", "Fine-tune Model", "Register Model", "Register Model : Dicom",
            "Register Model : Fixed", "View Results"} |->
        CASE n = "Train Model" -> "simple_xvr_gui.py"
          [] n = "Fine-tune Model" -> "xvr_finetune_gui.py"
          [] n = "Register Model" -> "xvr_register_withanimation.py"
          [] n = "Register Model : Dicom" -> "31-7-25registrationdicom.py"
          [] n = "Register Model : Fixed" -> "31-7-25registrationfixed.py"
          [] n = "View Results" -> "parameters_display_gui.py"]
\* create_launcher_widget: one button for each key of GUI_FILE_PATHS
Buttons == DOMAIN GUI_FILE_PATHS
\* dict.get(key): the value, or None
Get(dict, key) == IF key \in DOMAIN dict THEN dict[key] ELSE PyNone

\* the scripts of the repository, in one directory
RepositoryScripts ==
    {"finetune_gui.py", "parameters_display_gui.py", "registration-dicom.py",
     "registration-fixed.py", "simple_xvr_gui.py", "xvr_register_gui.py"}
Directory(files, dirs) ==
    [n \in files \cup dirs |-> IF n \in files THEN "file" ELSE "dir"]
AsShipped == Directory(RepositoryScripts, {})
\* other directories the script may find itself in
Directories ==
    {AsShipped,
     Directory({GUI_FILE_PATHS[n] : n \in Buttons}, {}),
     Directory({"xvr_register_gui.py", "simple_xvr_gui.py"}, {"xvr_finetune_gui.py"}),
     Directory({"xvr_register_gui.py"}, {})}

\* Path.is_file() of BASE_DIR / name
PanelIsFile(dir, name) == name \in DOMAIN dir /\ dir[name] = "file"
\* a variant that checks the mapping alone, for comparison
LaunchableIfMapped(file_path, dir) == file_path # PyNone
\* line 186, negated: not (not file_path or not file_path.is_file())
Launchable(file_path, dir) == file_path # PyNone /\ PanelIsFile(dir, file_path)

GuiNotFoundMsg(gui_name) == "Error: GUI file not found for " \o gui_name
LaunchFailedMsg(gui_name, e) == "Failed to launch " \o gui_name \o ": " \o e
\* what subprocess.Popen([sys.executable, file_path]) does: it returns once
\* the process is started, or raises
PopenOutcomes == {"started", "OSError", "PermissionError"}
\* line 192: except Exception catches every exception Popen raises
CaughtByExcept(e) == e \in {"OSError", "PermissionError"}
\* Popen returns without waiting: the process runs on
Started(processes, pid) == processes \cup {pid}

PanelInit ==
    /\ base_dir \in Directories
    /\ last_gui = ""
    /\ spawned = <<>>
    /\ running = {}
    /\ panel_shown = <<>>
    /\ panel_raised = FALSE

\* lines 183-193: one call, from a button (line 212) or with any other name
launch_selected_gui(gui_name) ==
    /\ Len(spawned) < MaxLaunches
    /\ last_gui' = gui_name
    /\ UNCHANGED base_dir
    /\ LET file_path == Get(GUI_FILE_PATHS, gui_name)
       IN  IF ~Launchable(file_path, base_dir)
           THEN /\ panel_shown' = <<GuiNotFoundMsg(gui_name)>>
                /\ panel_raised' = FALSE
                /\ UNCHANGED <<spawned, running>>
           ELSE \E outcome \in PopenOutcomes :
                IF outcome = "started"
                THEN /\ spawned' = Append(spawned, <<"sys.executable", file_path>>)
                     /\ running' = Started(running, Len(spawned) + 1)
                     /\ panel_shown' = <<>>
                     /\ panel_raised' = FALSE
                ELSE /\ panel_shown' = Opt(CaughtByExcept(outcome),
                                           <<LaunchFailedMsg(gui_name, outcome)>>)
                     /\ panel_raised' = ~CaughtByExcept(outcome)
                     /\ UNCHANGED <<spawned, running>>

\* a started GUI is closed by its user
GuiExits ==
    \E pid \in running :
        /\ running' = running \ {pid}
        /\ UNCHANGED <<base_dir, last_gui, spawned, panel_shown, panel_raised>>

\* C22: a call of launch_selected_gui with a mapped name whose file exists
\* starts [sys.executable, file] and returns while that process is running;
\* a call with an unmapped name, or a mapped file that is not an existing
\* file, shows the not-found notification and starts nothing; no call raises.
C22_LaunchOrReport ==
    /\ [](~panel_raised)
    /\ [][\A gui_name \in Buttons \cup {"Settings"} :
            launch_selected_gui(gui_name) =>
                IF gui_name \in Buttons /\ PanelIsFile(base_dir, GUI_FILE_PATHS[gui_name])
                THEN \/ /\ spawned' = Append(spawned, <<"sys.executable", GUI_FILE_PATHS[gui_name]>>)
                        /\ Len(spawned') \in running'
                        /\ panel_shown' = <<>>
                     \/ /\ spawned' = spawned
                        /\ running' = running
                        /\ Len(panel_shown') = 1
                        /\ panel_shown'[1] # GuiNotFoundMsg(gui_name)
                ELSE /\ spawned' = spawned
                     /\ running' = running
                     /\ panel_shown' = <<GuiNotFoundMsg(gui_name)>>]_panelVars
C22_Witness ==
    /\ Len(spawned) = 2
    /\ running = {2}
    /\ last_gui = "Fine-tune Model"
    /\ panel_shown = <<GuiNotFoundMsg("Fine-tune Model")>>
    /\ base_dir # AsShipped

\* C23: with the repository's scripts in one directory as shipped, every
\* button of the panel opens a script: no press of a button ends in the
\* notification that the GUI file was not found.
C23_EveryButtonOpens ==
    (base_dir = AsShipped /\ last_gui \in Buttons) =>
        GuiNotFoundMsg(last_gui) \notin Range(panel_shown)

\* =====================================================================
\* Training and finetuning (simple_xvr_gui.py: xvr_train_widget;
\* finetune_gui.py: run_xvr_finetune_cli, xvr_finetune_widget)
\* =====================================================================
Trainers == {"train", "finetune"}

CtDir == "~/xvr_data/ct_scans_for_training"
TrainOutDir == "~/xvr_models/trained_model_output"
PatientCt == "~/xvr_data/patient_ct.nii.gz"
FinetuneOutDir == "~/xvr_models/finetuned_model_output"
PretrainedCkpt == "~/xvr_models/pretrained_model.pth"
TrainFiles == {PatientCt, PretrainedCkpt}
TrainDirs == {CtDir, HomeDir}
\* Path.is_file(), Path.is_dir()
TrainIsFile(path) == path \in TrainFiles
TrainIsDir(path) == path \in TrainDirs \cup train_dirs
\* Path.stem: the last component without its last suffix
Stem(path) ==
    CASE path = PatientCt -> "patient_ct.nii"
      [] path = PretrainedCkpt -> "pretrained_model"
      [] path = NoSuchPath -> "path"
      [] path = CtDir -> "ct_scans_for_training"

\* a range slider's value: (lower, upper)
RangeValue(lo, hi) == <<Float(lo), Float(hi)>>
\* xvr_train_widget's signature (simple_xvr_gui.py lines 118-155, 28-44)
TrainDefaults ==
    [inpath |-> CtDir, outpath |-> TrainOutDir,
     r1 |-> RangeValue("-10.0", "10.0"), r2 |-> RangeValue("-5.0", "5.0"),
     r3 |-> RangeValue("-10.0", "10.0"), tx |-> RangeValue("-50.0", "50.0"),
     ty |-> RangeValue("-50.0", "50.0"), tz |-> RangeValue("-50.0", "50.0"),
     sdd |-> Float("1000.0"), height |-> 128, delx |-> Float("0.2"),
     renderer |-> "trilinear", orientation |-> "PA", reverse_x_axis |-> FALSE,
     parameterization |-> "euler_angles", convention |-> "ZXY",
     model_name |-> "resnet18", pretrained |-> FALSE, norm_layer |-> "groupnorm",
     lr |-> Float("0.005"), weight_geo |-> Float("0.01"), batch_size |-> 116,
     n_epochs |-> 1000, n_batches_per_epoch |-> 100]
\* xvr_finetune_widget's signature (finetune_gui.py lines 102-111, 25-27)
FinetuneDefaults ==
    [inpath |-> PatientCt, outpath |-> FinetuneOutDir, ckptpath |-> PretrainedCkpt,
     lr |-> Float("0.005"), batch_size |-> 116, n_epochs |-> 10,
     n_batches_per_epoch |-> 25, rescale |-> Float("1.0")]
TrainerDefaults(t) == IF t = "train" THEN TrainDefaults ELSE FinetuneDefaults

\* what the user can enter in each field, besides its default
TrainEntries ==
    [inpath |-> {NoSuchPath, PatientCt}, outpath |-> {NewDir, PatientCt},
     r1 |-> {RangeValue("-30.0", "45.0")}, r2 |-> {RangeValue("0.0", "90.0")},
     r3 |-> {RangeValue("-180.0", "-90.0")}, tx |-> {RangeValue("-200.0", "0.0")},
     ty |-> {RangeValue("10.0", "20.0")}, tz |-> {RangeValue("-75.5", "125.0")},
     sdd |-> {Float("1020.0")}, height |-> {256}, delx |-> {Float("0.5")},
     renderer |-> {"siddon"}, orientation |-> {"AP"}, reverse_x_axis |-> {TRUE},
     parameterization |-> {"quaternions"}, convention |-> {"XYZ", "RAS"},
     model_name |-> {"resnet34"}, pretrained |-> {TRUE}, norm_layer |-> {"batchnorm"},
     lr |-> {Float("0.001")}, weight_geo |-> {Float("0.5")}, batch_size |-> {8},
     n_epochs |-> {5}, n_batches_per_epoch |-> {10}]
FinetuneEntries ==
    [inpath |-> {NoSuchPath, CtDir}, outpath |-> {NewDir, PretrainedCkpt}, ckptpath |-> {NoSuchPath},
     lr |-> {Float("0.001")}, batch_size |-> {8}, n_epochs |-> {5},
     n_batches_per_epoch |-> {10}, rescale |-> {Float("2.0")}]
TrainerEntries(t) == IF t = "train" THEN TrainEntries ELSE FinetuneEntries
TrainDistance(t, w) == Cardinality({k \in DOMAIN w : w[k] # TrainerDefaults(t)[k]})

\* a variant that takes the upper bound, for comparison
LowerFromUpper(range) == range[2]
\* r1[0], ..., tz[0] (simple_xvr_gui.py lines 176-181)
Lower(range) == range[1]
\* r1[1], ..., tz[1]
Upper(range) == range[2]

\* simple_xvr_gui.py lines 173-200
TrainConfig(w) ==
    [inpath |-> w.inpath, outpath |-> w.outpath,
     alphamin |-> Lower(w.r1), alphamax |-> Upper(w.r1),
     betamin |-> Lower(w.r2), betamax |-> Upper(w.r2),
     gammamin |-> Lower(w.r3), gammamax |-> Upper(w.r3),
     txmin |-> Lower(w.tx), txmax |-> Upper(w.tx),
     tymin |-> Lower(w.ty), tymax |-> Upper(w.ty),
     tzmin |-> Lower(w.tz), tzmax |-> Upper(w.tz),
     sdd |-> w.sdd, height |-> w.height, delx |-> w.delx, renderer |-> w.renderer,
     orientation |-> w.orientation, reverse_x_axis |-> w.reverse_x_axis,
     parameterization |-> w.parameterization, convention |-> w.convention,
     model_name |-> w.model_name, pretrained |-> w.pretrained,
     norm_layer |-> w.norm_layer, lr |-> w.lr, weight_geo |-> w.weight_geo,
     batch_size |-> w.batch_size, n_epochs |-> w.n_epochs,
     n_batches_per_epoch |-> w.n_batches_per_epoch,
     project |-> "xvr-napari-gui-train", name |-> PyNone]
\* finetune_gui.py lines 128-139
FinetuneConfig(w) ==
    [inpath |-> w.inpath, outpath |-> w.outpath, ckptpath |-> w.ckptpath,
     lr |-> w.lr, batch_size |-> w.batch_size, n_epochs |-> w.n_epochs,
     n_batches_per_epoch |-> w.n_batches_per_epoch, rescale |-> w.rescale,
     project |-> "xvr-napari-gui-finetune", name |-> "finetune_" \o Stem(w.inpath)]
\* no config has been built
NoConfig == [project |-> PyNone]

\* finetune_gui.py lines 45-60: the args of runner.invoke
FinetuneArgs(config, run_obj) ==
    <<"finetune", "-i", config.inpath, "-o", config.outpath, "-c", config.ckptpath,
      "--lr", StrFloat(config.lr), "--batch_size", StrInt(config.batch_size),
      "--n_epochs", StrInt(config.n_epochs),
      "--n_batches_per_epoch", StrInt(config.n_batches_per_epoch),
      "--rescale", StrFloat(config.rescale)>>
    \o Opt(run_obj # "none" /\ Truthy(config.project),
           <<"--project", config.project>>
           \o Opt(Truthy(config.name), <<"--name", config.name>>))

\* ---------------------------------------------------- notifications
\* (the two closing texts begin with a check-mark and a cross-mark sign)
TrainStartMsg(t) ==
    IF t = "train" THEN "Starting XVR training (this may block the GUI)..."
    ELSE "Starting XVR finetuning (this may block the GUI)..."
CompletedMsg(t) ==
    IF t = "train" THEN "XVR training completed! Check output directory for model weights."
    ELSE "XVR finetuning completed! Check output directory for model weights."
ErrorDuringMsg(t, e) ==
    IF t = "train" THEN "Error during training: " \o e
    ELSE "Error during finetuning: " \o e
FinetuneFailedMsg(e) == "XVR Finetuning failed: " \o e
\* simple_xvr_gui.py lines 164-166, finetune_gui.py lines 117-122: the
\* notification of the first check that fails, or ""
TrainValidationError(t, w) ==
    IF t = "train"
    THEN (IF ~TrainIsDir(w.inpath)
          THEN "Error: Input directory not found at " \o w.inpath ELSE "")
    ELSE IF ~TrainIsFile(w.inpath)
    THEN "Error: Input CT volume not found at " \o w.inpath
    ELSE IF ~TrainIsFile(w.ckptpath)
    THEN "Error: Pretrained checkpoint not found at " \o w.ckptpath
    ELSE ""
\* outpath.mkdir(parents=True, exist_ok=True) raises when the path is a file
MkdirRaises(path) == TrainIsFile(path)

\* ------------------------------------------- what the callees can do
\* import wandb fails; wandb.init returns a run; wandb.init raises
WandbOutcomes == {"ImportError", "run", "CommError"}
\* train_model returns or raises; the dummy of lines 63-70 returns
TrainModelOutcomes(imported) ==
    IF imported THEN {"returned", "RuntimeError"} ELSE {"returned"}
\* the Result of CliRunner.invoke: the command returned; it raised an
\* exception (exit code 1); it left through sys.exit with a code other than
\* 0, as click does on a usage error (the exception is then the SystemExit)
InvokeResults ==
    {[exit_code |-> 0, exception |-> PyNone],
     [exit_code |-> 1, exception |-> "RuntimeError"],
     [exit_code |-> 2, exception |-> "SystemExit"]}
\* wandb_run.finish() returns or raises
FinishOutcomes == {"returned", "OSError"}
\* except Exception: SystemExit and KeyboardInterrupt are no Exception
IsException(e) == e \notin {"SystemExit", "KeyboardInterrupt"}

\* finetune_gui.py lines 63-71: what run_xvr_finetune_cli does with the result
FinetuneCall(result) ==
    IF result.exit_code # 0
    THEN [shown |-> <<FinetuneFailedMsg(IF result.exception # PyNone
                                        THEN result.exception ELSE "{result.output}")>>,
          outcome |-> IF result.exception # PyNone THEN result.exception ELSE "Exception"]
    ELSE [shown |-> <<>>, outcome |-> "returned"]

Attempt(run, call, notes, exception) ==
    [run |-> run, call |-> call, shown |-> notes, raised |-> exception]
\* the try statement (simple_xvr_gui.py lines 203-230, finetune_gui.py lines
\* 142-168): wandb is the outcome of the import and of wandb.init, call and
\* call_shown what the training call did, finish the outcome of finish()
TryBlock(t, wandb, call, call_shown, finish) ==
    IF wandb = "CommError"
    THEN Attempt("none", "not called", <<ErrorDuringMsg(t, wandb)>>, "none")
    ELSE LET run == IF wandb = "run" THEN "running" ELSE "none"
         IN  IF call # "returned"
             THEN IF IsException(call)
                  THEN Attempt(run, call, call_shown \o <<ErrorDuringMsg(t, call)>>, "none")
                  ELSE Attempt(run, call, call_shown, call)
             ELSE IF run = "running" /\ finish # "returned"
             THEN Attempt("finish raised", call, call_shown \o <<ErrorDuringMsg(t, finish)>>,
                          "none")
             ELSE Attempt(IF run = "running" THEN "finished" ELSE "none", call,
                          call_shown \o <<CompletedMsg(t)>>, "none")

TrainInit ==
    /\ trainer \in Trainers
    /\ xvr_imported \in BOOLEAN
    /\ train_form = TrainerDefaults(trainer)
    /\ train_pc = "idle"
    /\ train_config = NoConfig
    /\ train_call = "not called"
    /\ cli_args = <<>>
    /\ wandb_run = "none"
    /\ train_shown = <<>>
    /\ train_raised = "none"
    /\ train_dirs = {}

\* The user edits one field of the form.
EditTrainField ==
    \E k \in DOMAIN train_form :
      \E v \in TrainerEntries(trainer)[k] \cup {TrainerDefaults(trainer)[k]} :
        /\ v # train_form[k]
        /\ TrainDistance(trainer, [train_form EXCEPT ![k] = v]) <= MaxChanged
        /\ train_form' = [train_form EXCEPT ![k] = v]
        /\ train_pc' = "idle"
        /\ train_config' = NoConfig
        /\ train_call' = "not called"
        /\ cli_args' = <<>>
        /\ wandb_run' = "none"
        /\ train_shown' = <<>>
        /\ train_raised' = "none"
        /\ UNCHANGED <<trainer, xvr_imported, train_dirs>>

\* what a press leaves when the widget ends before its try statement
EndsEarly(notes, exception) ==
    /\ train_shown' = notes
    /\ train_raised' = exception
    /\ train_config' = NoConfig
    /\ train_call' = "not called"
    /\ cli_args' = <<>>
    /\ wandb_run' = "none"
    /\ UNCHANGED train_dirs

\* One press of "Start Training" (simple_xvr_gui.py lines 160-232).
xvr_train_widget ==
    /\ trainer = "train"
    /\ train_pc' = "returned"
    /\ UNCHANGED <<trainer, xvr_imported, train_form>>
    /\ LET err == TrainValidationError("train", train_form)
       IN  IF err # ""
           THEN EndsEarly(<<TrainStartMsg("train"), err>>, "none")
           ELSE IF MkdirRaises(train_form.outpath)
           THEN EndsEarly(<<TrainStartMsg("train")>>, "FileExistsError")
           ELSE \E wandb \in WandbOutcomes, call \in TrainModelOutcomes(xvr_imported),
                   finish \in FinishOutcomes :
                \E a \in {TryBlock("train", wandb, call, <<>>, finish)} :
                    /\ train_dirs' = train_dirs \cup ({train_form.outpath} \ TrainDirs)
                    /\ train_config' = TrainConfig(train_form)
                    /\ cli_args' = <<>>
                    /\ train_call' = a.call
                    /\ wandb_run' = a.run
                    /\ train_shown' = <<TrainStartMsg("train")>> \o a.shown
                    /\ train_raised' = a.raised

\* One press of "Start Finetuning" (finetune_gui.py lines 113-170).
xvr_finetune_widget ==
    /\ trainer = "finetune"
    /\ train_pc' = "returned"
    /\ UNCHANGED <<trainer, xvr_imported, train_form>>
    /\ LET err == TrainValidationError("finetune", train_form)
       IN  IF err # ""
           THEN EndsEarly(<<TrainStartMsg("finetune"), err>>, "none")
           ELSE IF MkdirRaises(train_form.outpath)
           THEN EndsEarly(<<TrainStartMsg("finetune")>>, "FileExistsError")
           ELSE \E wandb \in WandbOutcomes, finish \in FinishOutcomes :
                \E result \in (IF xvr_imported THEN InvokeResults
                               ELSE {[exit_code |-> 0, exception |-> PyNone]}) :
                \E a \in {TryBlock("finetune", wandb, FinetuneCall(result).outcome,
                                   FinetuneCall(result).shown, finish)} :
                    /\ train_dirs' = train_dirs \cup ({train_form.outpath} \ TrainDirs)
                    /\ train_config' = FinetuneConfig(train_form)
                    /\ cli_args' = IF xvr_imported /\ a.call # "not called"
                                   THEN FinetuneArgs(FinetuneConfig(train_form),
                                                     IF wandb = "run" THEN "running" ELSE "none")
                                   ELSE <<>>
                    /\ train_call' = a.call
                    /\ wandb_run' = a.run
                    /\ train_shown' = <<TrainStartMsg("finetune")>> \o a.shown
                    /\ train_raised' = a.raised

\* =====================================================================
\* Properties of training and finetuning
\* =====================================================================
RangeFields == {"r1", "r2", "r3", "tx", "ty", "tz"}
Called == train_pc = "returned" /\ train_call # "not called"

\* C24: the configuration xvr_train_widget hands to train_model holds each
\* range field's lower bound under the matching *min key and its upper bound
\* under the matching *max key (r1: alpha, r2: beta, r3: gamma, tx, ty, tz),
\* and every other widget value, unchanged, under the key of its own name.
C24_RangesToMinMax ==
    (trainer = "train" /\ Called) =>
        /\ train_config.alphamin = train_form.r1[1] /\ train_config.alphamax = train_form.r1[2]
        /\ train_config.betamin = train_form.r2[1] /\ train_config.betamax = train_form.r2[2]
        /\ train_config.gammamin = train_form.r3[1] /\ train_config.gammamax = train_form.r3[2]
        /\ train_config.txmin = train_form.tx[1] /\ train_config.txmax = train_form.tx[2]
        /\ train_config.tymin = train_form.ty[1] /\ train_config.tymax = train_form.ty[2]
        /\ train_config.tzmin = train_form.tz[1] /\ train_config.tzmax = train_form.tz[2]
        /\ \A k \in DOMAIN train_form \ RangeFields :
               k \in DOMAIN train_config /\ train_config[k] = train_form[k]
C24_Witness ==
    /\ trainer = "train"
    /\ Called
    /\ train_form.r3 = RangeValue("-180.0", "-90.0")
    /\ train_form.convention = "RAS"
    /\ train_config.gammamax = Float("-90.0")

\* C27: whenever a press has initialised a wandb run, finish() has been called
\* on that run when the widget is left, whether the training or finetuning
\* call returned or raised.
C27_RunFinished ==
    (train_pc = "returned" /\ wandb_run # "none") =>
        wandb_run \in {"finished", "finish raised"}

ShownCompleted == CompletedMsg(trainer) \in Range(train_shown)
ShownError ==
    \E e \in {"RuntimeError", "OSError", "CommError", "Exception", "SystemExit",
              "FileExistsError"} : ErrorDuringMsg(trainer, e) \in Range(train_shown)

\* C28: after a press on a form that passes input validation, the
\* "completed" notification is shown exactly when the training or finetuning
\* call returned without raising, the "Error during ..." notification is
\* shown otherwise, never both, and no exception has left the widget.
C28_CompletedOrError ==
    (train_pc = "returned" /\ TrainValidationError(trainer, train_form) = "") =>
        /\ ShownCompleted <=> train_call = "returned"
        /\ ShownError <=> ~ShownCompleted
        /\ train_raised = "none"

\* =====================================================================
\* Specifications
\* =====================================================================
vars == <<viewerVars, cmdVars, runVars, panelVars, trainVars>>

\* the forms, while the viewer runs
CmdAtRest ==
    /\ launcher = "model"
    /\ form = Defaults("model")
    /\ cmd_pc = "idle"
    /\ command = <<>>
    /\ cmd_shown = <<>>
    /\ cmd_result = "none"
    /\ created_dirs = {}
\* no external process
RunAtRest ==
    /\ child_script = <<>>
    /\ child_exit = 0
    /\ popen_fails = FALSE
    /\ popen_exception = "FileNotFoundError"
    /\ child_pos = 0
    /\ child_state = "none"
    /\ out_pipe = <<>>
    /\ err_pipe = <<>>
    /\ stderr_output = <<>>
    /\ console = <<>>

\* no call of the launcher panel
PanelAtRest ==
    /\ base_dir = AsShipped
    /\ last_gui = ""
    /\ spawned = <<>>
    /\ running = {}
    /\ panel_shown = <<>>
    /\ panel_raised = FALSE

\* no training or finetuning
TrainAtRest ==
    /\ trainer = "train"
    /\ xvr_imported = TRUE
    /\ train_form = TrainDefaults
    /\ train_pc = "idle"
    /\ train_config = NoConfig
    /\ train_call = "not called"
    /\ cli_args = <<>>
    /\ wandb_run = "none"
    /\ train_shown = <<>>
    /\ train_raised = "none"
    /\ train_dirs = {}

\* The pose viewer.
Init == ViewerInit /\ CmdAtRest /\ RunAtRest /\ PanelAtRest /\ TrainAtRest
Next == ViewerNext /\ UNCHANGED <<cmdVars, runVars, panelVars, trainVars>>
Spec == Init /\ [][Next]_vars

\* The registration forms: the fields are edited and the call button pressed,
\* the external process taken as a whole.
InitCmd == ViewerInit /\ CmdInit /\ RunAtRest /\ PanelAtRest /\ TrainAtRest
NextCmd ==
    \/ EditField /\ UNCHANGED <<viewerVars, runVars, panelVars, trainVars>>
    \/ RegisterWidget /\ UNCHANGED <<viewerVars, runVars, panelVars, trainVars>>
SpecCmd == InitCmd /\ [][NextCmd]_vars

\* One press of the call button on a ready form, step by step: the launcher,
\* the child and the pipes between them.  Whatever can run does run.
InitRun ==
    /\ ViewerInit
    /\ launcher \in Launchers
    /\ form = Ready(launcher)
    /\ cmd_pc = "idle"
    /\ command = <<>>
    /\ cmd_shown = <<>>
    /\ cmd_result = "none"
    /\ created_dirs = {}
    /\ RunInit
    /\ PanelAtRest
    /\ TrainAtRest
NextRun ==
    \/ StartProcess /\ UNCHANGED <<viewerVars, panelVars, trainVars>>
    \/ ChildWrite /\ UNCHANGED <<viewerVars, panelVars, trainVars>>
    \/ ChildExit /\ UNCHANGED <<viewerVars, panelVars, trainVars>>
    \/ ReadLine /\ UNCHANGED <<viewerVars, panelVars, trainVars>>
    \/ LoopEnds /\ UNCHANGED <<viewerVars, panelVars, trainVars>>
    \/ CommunicateReads /\ UNCHANGED <<viewerVars, panelVars, trainVars>>
    \/ CommunicateEnds /\ UNCHANGED <<viewerVars, panelVars, trainVars>>
SpecRun == InitRun /\ [][NextRun]_vars /\ WF_vars(NextRun)

\* The launcher panel: its buttons are pressed, started GUIs are closed.
InitPanel == ViewerInit /\ CmdAtRest /\ RunAtRest /\ PanelInit /\ TrainAtRest
NextPanel ==
    \/ (\E gui_name \in Buttons \cup {"Settings"} : launch_selected_gui(gui_name))
            /\ UNCHANGED <<viewerVars, cmdVars, runVars, trainVars>>
    \/ GuiExits /\ UNCHANGED <<viewerVars, cmdVars, runVars, trainVars>>
SpecPanel == InitPanel /\ [][NextPanel]_vars

\* Training and finetuning: the fields are edited and the call button pressed.
InitTrain == ViewerInit /\ CmdAtRest /\ RunAtRest /\ PanelAtRest /\ TrainInit
NextTrain ==
    \/ EditTrainField /\ UNCHANGED <<viewerVars, cmdVars, runVars, panelVars>>
    \/ xvr_train_widget /\ UNCHANGED <<viewerVars, cmdVars, runVars, panelVars>>
    \/ xvr_finetune_widget /\ UNCHANGED <<viewerVars, cmdVars, runVars, panelVars>>
SpecTrain == InitTrain /\ [][NextTrain]_vars

=============================================================================
